---- MODULE Spec2Model ----
(***************************************************************************)
(* Control plane of the speekium voice assistant: the operation status     *)
(* machine (APP_STATUS, interrupt priorities), the worker-process          *)
(* supervisor (DAEMON behind one mutex, handshake, health check, restart)  *)
(* and the line-oriented request/response protocol on the worker's pipes.  *)
(* Every thread of the application is a process of the model; a step is    *)
(* one atomic access to a shared object (a mutex acquisition, an atomic    *)
(* flag, one line written to or read from a pipe).                         *)
(***************************************************************************)
EXTENDS Integers, Sequences, FiniteSets, TLC

\* ------------------------------------------------------------------------
\* Bounds of the model
\* ------------------------------------------------------------------------
NumThreads == 2
MaxProcs == 2
MaxReq == 2
MaxOut == 2

Threads == 1..NumThreads
Procs == 1..MaxProcs

\* ------------------------------------------------------------------------
\* types.rs
\* ------------------------------------------------------------------------
AppStatus ==
  {"Idle", "Listening", "Recording", "AsrProcessing", "LlmProcessing",
   "TtsProcessing", "Playing"}

as_str(s) ==
  CASE s = "Idle" -> "idle"
    [] s = "Listening" -> "listening"
    [] s = "Recording" -> "recording"
    [] s = "AsrProcessing" -> "asr"
    [] s = "LlmProcessing" -> "llm"
    [] s = "TtsProcessing" -> "tts"
    [] s = "Playing" -> "playing"

\* The priorities a caller can pass (u8); 0 and 4 stand for every value
\* outside 1..3.
Priorities == 0..4

\* can_be_interrupted with the Recording exception of priority 3 forgotten.
can_be_interrupted_exit_always(s, interrupt_priority) ==
  CASE interrupt_priority = 1 -> TRUE
    [] interrupt_priority = 2 -> s \in {"Recording", "Listening"}
    [] interrupt_priority = 3 -> TRUE
    [] OTHER -> FALSE

\* can_be_interrupted with priority 0 treated like priority 1.
can_be_interrupted_zero_exits(s, interrupt_priority) ==
  CASE interrupt_priority \in {0, 1} -> TRUE
    [] interrupt_priority = 2 -> s \in {"Recording", "Listening"}
    [] interrupt_priority = 3 -> s # "Recording"
    [] OTHER -> FALSE

can_be_interrupted(s, interrupt_priority) ==
  CASE interrupt_priority = 1 -> TRUE
    [] interrupt_priority = 2 -> s \in {"Recording", "Listening"}
    [] interrupt_priority = 3 -> s # "Recording"
    [] OTHER -> FALSE

RecordingMode == {"Continuous", "PushToTalk"}

\* ------------------------------------------------------------------------
\* Lines on the worker's stdout.  k is what the line parses as:
\*   "garbage"  not JSON
\*   "event"    a JSON object with an "event" key (log/progress line)
\*   "resp"     a JSON object without "event" and without "type"
\*   "chunk", "done", "error"   a JSON object without "event" whose "type"
\*                               is a stream chunk type
\* req is the number of the request line it answers (0: none), succ the
\* "success" field ("t", "f", or "none" when absent), stat whether a
\* "status" field is present.  event is the string under "event" and
\* message the string under "message": present or not, and its text as a
\* sequence of words ("jiuxu" stands for the two characters U+5C31 U+7EEA).
\* ------------------------------------------------------------------------
Text(words) == [present |-> TRUE, text |-> words]
NoMessage == [present |-> FALSE, text |-> <<>>]

Line(k, r, s, st) ==
  [k |-> k, req |-> r, succ |-> s, stat |-> st, event |-> "none",
   message |-> NoMessage]
EventLine(e, m) ==
  [k |-> "event", req |-> 0, succ |-> "none", stat |-> FALSE, event |-> e,
   message |-> m]
NoLine == Line("none", 0, "none", FALSE)
Cancelled == Line("cancelled", 0, "f", FALSE)
LogLine == EventLine("loading_asr", Text(<<"loading">>))
ReadyLine == EventLine("daemon_success", Text(<<"daemon", "ready">>))
GarbageLine == Line("garbage", 0, "none", FALSE)

HasEventKey(l) == l.k = "event"

\* A parser that accepts the empty read at end-of-file.
ParsesAsJson_accepts_eof(l) == l.k # "garbage"

\* serde_json::from_str(&line) succeeds.
ParsesAsJson(l) == l.k \notin {"garbage", "eof"}

\* message.contains(word)
contains(message, word) ==
  \E i \in 1..Len(message.text) : message.text[i] = word

Commands ==
  {"health", "config", "record", "chat", "interrupt", "exit",
   "ptt_press", "ptt_audio", "ptt_release", "set_recording_mode",
   "chat_stream", "chat_tts_stream"}
StreamCommands == {"chat_stream", "chat_tts_stream"}

\* ------------------------------------------------------------------------
\* State
\* ------------------------------------------------------------------------
VARIABLES
  APP_STATUS,            \* daemon/state.rs:43
  RECORDING_ABORTED,     \* daemon/state.rs:34
  RECORDING_MODE,        \* daemon/state.rs:37
  STREAMING_IN_PROGRESS, \* daemon/state.rs:25
  DAEMON_READY,          \* daemon/state.rs:19
  DAEMON,                \* daemon/state.rs:16  stored handle: 0 (None) or a process
  lock,                  \* owner of the DAEMON mutex: 0 (free) or a thread
  procs,                 \* the worker processes spawned so far
  nprocs,                \* number of processes spawned so far
  asyncStarted,          \* setup_app has called start_daemon_async
  pc,                    \* per thread: position in the operation it runs
  arg_status,            \* per thread: new_status argument of transition_status
  arg_priority,          \* per thread: priority argument of interrupt_operation
  cur,                   \* per thread: local current_status
  cmd,                   \* per thread: command of the round trip in progress
  cont,                  \* per thread: caller of call_daemon / PythonDaemon::new
  child,                 \* per thread: process of the handle in use
  myreq,                 \* per thread: number of the request line it wrote
  flag,                  \* per thread: local boolean of the operation
  ret,                   \* per thread: what the last operation returned
  recorder,              \* audio.rs:24  the AudioRecorder singleton
  capture,               \* audio.rs:75  the capture threads spawned so far
  rec_call,              \* the start_recording / stop_recording call in progress
  reader,                \* ptt/reader.rs:32  the PTT reader thread and its pipe
  dsp                    \* audio.rs:315, 354; types.rs  a call of a pure function

\* The state outside the worker supervisor: audio pipeline and PTT reader.
peripheralVars == <<recorder, capture, rec_call, reader, dsp>>

vars ==
  <<APP_STATUS, RECORDING_ABORTED, RECORDING_MODE, STREAMING_IN_PROGRESS,
    DAEMON_READY, DAEMON, lock, procs, nprocs, asyncStarted,
    pc, arg_status, arg_priority, cur, cmd, cont, child, myreq, flag, ret,
    recorder, capture, rec_call, reader, dsp>>

\* The state of the worker supervisor and the commands.
daemonVars ==
  <<APP_STATUS, RECORDING_ABORTED, RECORDING_MODE, STREAMING_IN_PROGRESS,
    DAEMON_READY, DAEMON, lock, procs, nprocs, asyncStarted,
    pc, arg_status, arg_priority, cur, cmd, cont, child, myreq, flag, ret>>

globalVars ==
  <<APP_STATUS, RECORDING_ABORTED, RECORDING_MODE, STREAMING_IN_PROGRESS,
    DAEMON_READY, DAEMON, lock, procs, nprocs, asyncStarted>>

Ret(op, ok, msg, line) == [op |-> op, ok |-> ok, msg |-> msg, line |-> line]
NoRet == Ret("none", TRUE, <<>>, NoLine)

NewProc ==
  [alive |-> TRUE, reqs |-> <<>>, answered |-> 0, out |-> <<>>,
   ready |-> FALSE]
NoProc ==
  [alive |-> FALSE, reqs |-> <<>>, answered |-> 0, out |-> <<>>,
   ready |-> FALSE]

Set(f, t, v) == [f EXCEPT ![t] = v]

\* A mutex that hands out a guard while another guard is live.
DaemonLockFree_always == TRUE

\* DAEMON.lock() returns, and DAEMON.try_lock() succeeds, only while no
\* thread holds a guard of the mutex.
DaemonLockFree == lock = 0

\* A thread returns from its operation.
Return(t, r) ==
  /\ pc' = Set(pc, t, "idle")
  /\ ret' = Set(ret, t, r)

Goto(t, l) == pc' = Set(pc, t, l)

locals == <<arg_status, arg_priority, cur, cmd, cont, child, myreq, flag>>

\* ------------------------------------------------------------------------
\* transition_status (lib.rs)
\* ------------------------------------------------------------------------
\* valid_transition with the catch-all arm `_ => false` shadowed by one
\* extra edge.
valid_transition_extra_edge(current_status, new_status) ==
  \/ current_status = new_status
  \/ <<current_status, new_status>> \in
       {<<"Idle", "Listening">>, <<"Idle", "Recording">>,
        <<"Listening", "Recording">>, <<"Listening", "Idle">>,
        <<"Recording", "AsrProcessing">>, <<"Recording", "Idle">>,
        <<"AsrProcessing", "Idle">>, <<"AsrProcessing", "LlmProcessing">>,
        <<"LlmProcessing", "TtsProcessing">>, <<"LlmProcessing", "Idle">>,
        <<"TtsProcessing", "Playing">>, <<"TtsProcessing", "Idle">>,
        <<"Playing", "Idle">>, <<"Playing", "Listening">>,
        <<"Idle", "AsrProcessing">>}

\* valid_transition without the arm for Playing -> Listening.
valid_transition_missing_edge(current_status, new_status) ==
  \/ current_status = new_status
  \/ <<current_status, new_status>> \in
       {<<"Idle", "Listening">>, <<"Idle", "Recording">>,
        <<"Listening", "Recording">>, <<"Listening", "Idle">>,
        <<"Recording", "AsrProcessing">>, <<"Recording", "Idle">>,
        <<"AsrProcessing", "Idle">>, <<"AsrProcessing", "LlmProcessing">>,
        <<"LlmProcessing", "TtsProcessing">>, <<"LlmProcessing", "Idle">>,
        <<"TtsProcessing", "Playing">>, <<"TtsProcessing", "Idle">>,
        <<"Playing", "Idle">>}

valid_transition(current_status, new_status) ==
  CASE current_status = "Idle" /\ new_status = "Listening" -> TRUE
    [] current_status = "Idle" /\ new_status = "Recording" -> TRUE
    [] current_status = "Listening" /\ new_status = "Recording" -> TRUE
    [] current_status = "Listening" /\ new_status = "Idle" -> TRUE
    [] current_status = "Recording" /\ new_status = "AsrProcessing" -> TRUE
    [] current_status = "Recording" /\ new_status = "Idle" -> TRUE
    [] current_status = "AsrProcessing" /\ new_status = "Idle" -> TRUE
    [] current_status = "AsrProcessing" /\ new_status = "LlmProcessing" -> TRUE
    [] current_status = "LlmProcessing" /\ new_status = "TtsProcessing" -> TRUE
    [] current_status = "LlmProcessing" /\ new_status = "Idle" -> TRUE
    [] current_status = "TtsProcessing" /\ new_status = "Playing" -> TRUE
    [] current_status = "TtsProcessing" /\ new_status = "Idle" -> TRUE
    [] current_status = "Playing" /\ new_status = "Idle" -> TRUE
    [] current_status = "Playing" /\ new_status = "Listening" -> TRUE
    [] current_status = new_status -> TRUE
    [] OTHER -> FALSE

\* The caller enters transition_status(new_status).
TransitionCall(t, new_status) ==
  /\ pc[t] = "idle"
  /\ Goto(t, "ts_read")
  /\ arg_status' = Set(arg_status, t, new_status)
  /\ ret' = Set(ret, t, NoRet)
  /\ UNCHANGED <<globalVars, arg_priority, cur, cmd, cont, child, myreq, flag>>
  /\ UNCHANGED peripheralVars

\* let current_status = *APP_STATUS.lock().unwrap(); validate; Err(..) if
\* the pair is not a valid transition.
TransitionRead(t) ==
  /\ pc[t] = "ts_read"
  /\ cur' = Set(cur, t, APP_STATUS)
  /\ IF valid_transition(APP_STATUS, arg_status[t])
       THEN Goto(t, "ts_write") /\ UNCHANGED ret
       ELSE Return(t, Ret("transition_status", FALSE,
                          <<"Invalid status transition",
                            as_str(APP_STATUS), as_str(arg_status[t])>>, NoLine))
  /\ UNCHANGED <<globalVars, arg_status, arg_priority, cmd, cont, child, myreq, flag>>
  /\ UNCHANGED peripheralVars

\* *APP_STATUS.lock().unwrap() = new_status; Ok(())
TransitionWrite(t) ==
  /\ pc[t] = "ts_write"
  /\ APP_STATUS' = arg_status[t]
  /\ Return(t, Ret("transition_status", TRUE, <<>>, NoLine))
  /\ UNCHANGED <<RECORDING_ABORTED, RECORDING_MODE, STREAMING_IN_PROGRESS,
                 DAEMON_READY, DAEMON, lock, procs, nprocs, asyncStarted,
                 locals>>
  /\ UNCHANGED peripheralVars

\* ------------------------------------------------------------------------
\* The worker process (opaque; it follows the wire protocol of the spec):
\* it may log at any time, announces readiness once, answers the request
\* lines it has read one by one and in order, and may exit at any time.
\* ------------------------------------------------------------------------
Emit(p, l) == procs' = [procs EXCEPT ![p].out = Append(@, l)]

CanEmit(p) == procs[p].alive /\ Len(procs[p].out) < MaxOut

WorkerLog(p) ==
  /\ CanEmit(p)
  /\ Emit(p, LogLine)
  /\ UNCHANGED <<APP_STATUS, RECORDING_ABORTED, RECORDING_MODE,
                 STREAMING_IN_PROGRESS, DAEMON_READY, DAEMON, lock, nprocs,
                 asyncStarted, pc, ret, locals>>
  /\ UNCHANGED peripheralVars

WorkerGarbage(p) ==
  /\ CanEmit(p)
  /\ Emit(p, GarbageLine)
  /\ UNCHANGED <<APP_STATUS, RECORDING_ABORTED, RECORDING_MODE,
                 STREAMING_IN_PROGRESS, DAEMON_READY, DAEMON, lock, nprocs,
                 asyncStarted, pc, ret, locals>>
  /\ UNCHANGED peripheralVars

WorkerReady(p) ==
  /\ CanEmit(p)
  /\ ~procs[p].ready
  /\ procs' = [procs EXCEPT ![p].out = Append(@, ReadyLine), ![p].ready = TRUE]
  /\ UNCHANGED <<APP_STATUS, RECORDING_ABORTED, RECORDING_MODE,
                 STREAMING_IN_PROGRESS, DAEMON_READY, DAEMON, lock, nprocs,
                 asyncStarted, pc, ret, locals>>
  /\ UNCHANGED peripheralVars

\* The lines a worker can write while it initialises: text that is not
\* JSON, progress events, "daemon_success" events with and without a
\* message, objects without an "event" key, and the ready announcement in
\* either language.  The pipe holds one initialisation line at a time: the
\* handshake reads line by line, so every sequence of lines is still read.
ReadyLineZh == EventLine("daemon_success", Text(<<"jiuxu">>))
ReadyLines == {ReadyLine, ReadyLineZh}
InitLines ==
  {GarbageLine, LogLine,
   EventLine("daemon_success", Text(<<"models", "loaded">>)),
   EventLine("daemon_success", NoMessage),
   EventLine("loading_asr", Text(<<"ready">>)),
   Line("resp", 0, "t", FALSE),
   ReadyLineZh}

WorkerInit(p) ==
  /\ procs[p].alive
  /\ procs[p].out = <<>>
  /\ ~procs[p].ready
  /\ \E l \in InitLines :
       procs' = [procs EXCEPT ![p].out = Append(@, l),
                              ![p].ready = (l \in ReadyLines)]
  /\ UNCHANGED <<APP_STATUS, RECORDING_ABORTED, RECORDING_MODE,
                 STREAMING_IN_PROGRESS, DAEMON_READY, DAEMON, lock, nprocs,
                 asyncStarted, pc, ret, locals>>
  /\ UNCHANGED peripheralVars

\* The shapes a reply to command c can have.
Replies(c, n) ==
  IF c \in StreamCommands
    THEN {Line("done", n, "none", FALSE), Line("error", n, "none", FALSE)}
    ELSE IF c = "health"
      THEN {Line("resp", n, "t", TRUE), Line("resp", n, "f", TRUE),
            Line("resp", n, "t", FALSE)}
      ELSE {Line("resp", n, "t", FALSE), Line("resp", n, "f", FALSE),
            Line("resp", n, "none", FALSE)}

WorkerRespond(p) ==
  /\ CanEmit(p)
  /\ procs[p].ready
  /\ procs[p].answered < Len(procs[p].reqs)
  /\ LET n == procs[p].answered + 1 IN
       \E l \in Replies(procs[p].reqs[n], n) :
         procs' = [procs EXCEPT ![p].out = Append(@, l), ![p].answered = n]
  /\ UNCHANGED <<APP_STATUS, RECORDING_ABORTED, RECORDING_MODE,
                 STREAMING_IN_PROGRESS, DAEMON_READY, DAEMON, lock, nprocs,
                 asyncStarted, pc, ret, locals>>
  /\ UNCHANGED peripheralVars

\* A partial chunk of the stream being answered.
WorkerChunk(p) ==
  /\ CanEmit(p)
  /\ procs[p].ready
  /\ procs[p].answered < Len(procs[p].reqs)
  /\ LET n == procs[p].answered + 1 IN
       /\ procs[p].reqs[n] \in StreamCommands
       /\ Emit(p, Line("chunk", n, "none", FALSE))
  /\ UNCHANGED <<APP_STATUS, RECORDING_ABORTED, RECORDING_MODE,
                 STREAMING_IN_PROGRESS, DAEMON_READY, DAEMON, lock, nprocs,
                 asyncStarted, pc, ret, locals>>
  /\ UNCHANGED peripheralVars

WorkerExit(p) ==
  /\ procs[p].alive
  /\ procs' = [procs EXCEPT ![p].alive = FALSE]
  /\ UNCHANGED <<APP_STATUS, RECORDING_ABORTED, RECORDING_MODE,
                 STREAMING_IN_PROGRESS, DAEMON_READY, DAEMON, lock, nprocs,
                 asyncStarted, pc, ret, locals>>
  /\ UNCHANGED peripheralVars

\* What read_line on the stdout of process p yields: the next buffered
\* line, or the empty read at end-of-file once the process is gone.
CanRead(p) == procs[p].out # <<>> \/ ~procs[p].alive
NextLine(p) ==
  IF procs[p].out # <<>> THEN Head(procs[p].out)
  ELSE Line("eof", 0, "none", FALSE)
Consume(p) ==
  IF procs[p].out # <<>> THEN [procs EXCEPT ![p].out = Tail(@)] ELSE procs

\* ------------------------------------------------------------------------
\* PythonDaemon::send_command (daemon/process.rs), run under the DAEMON
\* mutex by its callers.
\* ------------------------------------------------------------------------
\* The response-shape test of the read loop.
ExpectedShape(command, result) ==
  CASE command = "model_status" -> FALSE
    [] command = "health" -> result.stat
    [] OTHER -> result.succ # "none"

\* What happens when send_command returns, by caller:
\*   "call"     call_daemon called by a command: drop the guard and return
\*   "int"      call_daemon called by interrupt_operation: result ignored
\*   "ensure"   health_check in ensure_daemon_running: guard kept
\*   "async"    the config round trip of start_daemon_async
\*   "cleanup"  the exit round trip of cleanup_daemon: guard kept
health_check_result(ok, line) == ok /\ line.succ = "t"

SendDone(t, ok, msg, line) ==
  CASE cont[t] = "call" ->
         /\ lock' = 0
         /\ Return(t, Ret(cmd[t], ok, msg, line))
         /\ UNCHANGED flag
    [] cont[t] = "int" ->
         /\ lock' = 0
         /\ Goto(t, "int_set")
         /\ UNCHANGED <<ret, flag>>
    [] cont[t] = "ensure" ->
         /\ flag' = Set(flag, t, health_check_result(ok, line))
         /\ Goto(t, "en_health")
         /\ UNCHANGED <<ret, lock>>
    [] cont[t] = "async" ->
         /\ lock' = 0
         /\ flag' = Set(flag, t, ok)
         /\ Goto(t, "as_sync")
         /\ UNCHANGED ret
    [] cont[t] = "cleanup" ->
         /\ Goto(t, "cl_wait")
         /\ UNCHANGED <<ret, lock, flag>>

\* writeln!(self.stdin, request); self.stdin.flush()
SendWrite(t) ==
  /\ pc[t] = "sc_write"
  /\ LET p == child[t] IN
       IF procs[p].alive
         THEN /\ Len(procs[p].reqs) < MaxReq
              /\ procs' = [procs EXCEPT ![p].reqs = Append(@, cmd[t])]
              /\ myreq' = Set(myreq, t, Len(procs[p].reqs) + 1)
              /\ Goto(t, "sc_abort")
              /\ UNCHANGED <<ret, lock, flag>>
         ELSE /\ SendDone(t, FALSE, <<"Failed to write command">>, NoLine)
              /\ UNCHANGED <<procs, myreq>>
  /\ UNCHANGED <<APP_STATUS, RECORDING_ABORTED, RECORDING_MODE,
                 STREAMING_IN_PROGRESS, DAEMON_READY, DAEMON, nprocs,
                 asyncStarted, arg_status, arg_priority, cur, cmd, cont, child>>
  /\ UNCHANGED peripheralVars

\* Head of the read loop: if RECORDING_ABORTED { store(false); return
\* Ok({"success": false, "error": "Recording cancelled"}) }
SendAbortCheck(t) ==
  /\ pc[t] = "sc_abort"
  /\ IF RECORDING_ABORTED
       THEN /\ RECORDING_ABORTED' = FALSE
            /\ SendDone(t, TRUE, <<>>, Cancelled)
       ELSE /\ Goto(t, "sc_read")
            /\ UNCHANGED <<RECORDING_ABORTED, ret, lock, flag>>
  /\ UNCHANGED <<APP_STATUS, RECORDING_MODE, STREAMING_IN_PROGRESS,
                 DAEMON_READY, DAEMON, procs, nprocs, asyncStarted,
                 arg_status, arg_priority, cur, cmd, cont, child, myreq>>
  /\ UNCHANGED peripheralVars

\* self.stdout.read_line(&mut line)?; serde_json::from_str(&line)?; skip
\* log events; return the line if it has the expected shape.
SendRead(t) ==
  /\ pc[t] = "sc_read"
  /\ CanRead(child[t])
  /\ LET l == NextLine(child[t]) IN
       /\ procs' = Consume(child[t])
       /\ IF ~ParsesAsJson(l)
            THEN SendDone(t, FALSE, <<"Failed to parse JSON">>, NoLine)
            ELSE IF HasEventKey(l) \/ ~ExpectedShape(cmd[t], l)
              THEN Goto(t, "sc_abort") /\ UNCHANGED <<ret, lock, flag>>
              ELSE SendDone(t, TRUE, <<>>, l)
  /\ UNCHANGED <<APP_STATUS, RECORDING_ABORTED, RECORDING_MODE,
                 STREAMING_IN_PROGRESS, DAEMON_READY, DAEMON, nprocs,
                 asyncStarted, arg_status, arg_priority, cur, cmd, cont, child, myreq>>
  /\ UNCHANGED peripheralVars

\* ------------------------------------------------------------------------
\* call_daemon (daemon/startup.rs)
\* ------------------------------------------------------------------------
\* An error of call_daemon propagated by every caller.
CallFail_propagated(t, msg) ==
  Return(t, Ret(cmd[t], FALSE, msg, NoLine))

\* What call_daemon's own error returns do, by caller.
CallFail(t, msg) ==
  IF cont[t] = "int"
    THEN Goto(t, "int_set") /\ UNCHANGED ret
    ELSE Return(t, Ret(cmd[t], FALSE, msg, NoLine))

\* call_daemon without the wait for the ready flag.
CallWait_ignores_flag(t) ==
  /\ pc[t] = "cd_wait"
  /\ Goto(t, "cd_lock") /\ UNCHANGED ret
  /\ UNCHANGED <<globalVars, locals>>
  /\ UNCHANGED peripheralVars

\* while !is_daemon_ready() { if start.elapsed() > timeout { return Err } }
CallWait(t) ==
  /\ pc[t] = "cd_wait"
  /\ IF DAEMON_READY
       THEN Goto(t, "cd_lock") /\ UNCHANGED ret
       ELSE CallFail(t, <<"timeout">>)
  /\ UNCHANGED <<globalVars, locals>>
  /\ UNCHANGED peripheralVars

\* let mut daemon = DAEMON.lock().unwrap();
\* let daemon = daemon.as_mut().ok_or("Daemon not available")?;
CallLock(t) ==
  /\ pc[t] = "cd_lock"
  /\ DaemonLockFree
  /\ IF DAEMON = 0
       THEN /\ CallFail(t, <<"Daemon not available">>)
            /\ UNCHANGED <<lock, child>>
       ELSE /\ lock' = t
            /\ child' = Set(child, t, DAEMON)
            /\ Goto(t, "sc_write")
            /\ UNCHANGED ret
  /\ UNCHANGED <<APP_STATUS, RECORDING_ABORTED, RECORDING_MODE,
                 STREAMING_IN_PROGRESS, DAEMON_READY, DAEMON, procs, nprocs,
                 asyncStarted, arg_status, arg_priority, cur, cmd, cont, myreq, flag>>
  /\ UNCHANGED peripheralVars

\* chat_llm / load_config: call_daemon(command, ..)?
CommandCall(t, command) ==
  /\ pc[t] = "idle"
  /\ Goto(t, "cd_wait")
  /\ cmd' = Set(cmd, t, command)
  /\ cont' = Set(cont, t, "call")
  /\ ret' = Set(ret, t, NoRet)
  /\ UNCHANGED <<globalVars, arg_status, arg_priority, cur, child, myreq, flag>>
  /\ UNCHANGED peripheralVars

\* ------------------------------------------------------------------------
\* interrupt_operation (commands/mod.rs)
\* ------------------------------------------------------------------------
InterruptCall(t, priority) ==
  /\ pc[t] = "idle"
  /\ Goto(t, "int_read")
  /\ arg_priority' = Set(arg_priority, t, priority)
  /\ ret' = Set(ret, t, NoRet)
  /\ UNCHANGED <<globalVars, arg_status, cur, cmd, cont, child, myreq, flag>>
  /\ UNCHANGED peripheralVars

\* let current_status = *APP_STATUS.lock().unwrap();
\* if current_status.can_be_interrupted(priority) { .. } else { Err(..) }
InterruptRead(t) ==
  /\ pc[t] = "int_read"
  /\ cur' = Set(cur, t, APP_STATUS)
  /\ IF can_be_interrupted(APP_STATUS, arg_priority[t])
       THEN Goto(t, "int_act") /\ UNCHANGED ret
       ELSE Return(t, Ret("interrupt_operation", FALSE,
                          <<"Cannot interrupt status", as_str(APP_STATUS),
                            ToString(arg_priority[t])>>, NoLine))
  /\ UNCHANGED <<globalVars, arg_status, arg_priority, cmd, cont, child, myreq, flag>>
  /\ UNCHANGED peripheralVars

\* The abort flag left alone in every status.
sets_abort_never(status) == FALSE

\* The arm of the match that stores RECORDING_ABORTED.
sets_abort(status) == status = "Recording"

\* match current_status { Recording => abort flag, Llm/Tts/Playing =>
\* call_daemon("interrupt"), _ => {} }
InterruptAct(t) ==
  /\ pc[t] = "int_act"
  /\ CASE sets_abort(cur[t]) ->
            /\ RECORDING_ABORTED' = TRUE
            /\ Goto(t, "int_set")
            /\ UNCHANGED <<cmd, cont>>
       [] cur[t] \in {"LlmProcessing", "TtsProcessing", "Playing"} ->
            /\ Goto(t, "cd_wait")
            /\ cmd' = Set(cmd, t, "interrupt")
            /\ cont' = Set(cont, t, "int")
            /\ UNCHANGED RECORDING_ABORTED
       [] OTHER ->
            /\ Goto(t, "int_set")
            /\ UNCHANGED <<RECORDING_ABORTED, cmd, cont>>
  /\ UNCHANGED <<APP_STATUS, RECORDING_MODE, STREAMING_IN_PROGRESS,
                 DAEMON_READY, DAEMON, lock, procs, nprocs, asyncStarted,
                 arg_status, arg_priority, cur, child, myreq, flag, ret>>
  /\ UNCHANGED peripheralVars

\* forced_status with the comparison off by one (priority <= 3).
forced_status_off_by_one(priority, status) ==
  IF priority <= 3 THEN "Idle" ELSE status

\* The status interrupt_operation stores when it is permitted.
forced_status(priority, status) ==
  IF priority <= 2 THEN "Idle" ELSE status

\* if priority <= 2 { *APP_STATUS.lock().unwrap() = AppStatus::Idle; }
\* Ok(format!("Interrupted: {}", current_status.as_str()))
InterruptSet(t) ==
  /\ pc[t] = "int_set"
  /\ APP_STATUS' = forced_status(arg_priority[t], APP_STATUS)
  /\ Return(t, Ret("interrupt_operation", TRUE,
                   <<"Interrupted", as_str(cur[t])>>, NoLine))
  /\ UNCHANGED <<RECORDING_ABORTED, RECORDING_MODE, STREAMING_IN_PROGRESS,
                 DAEMON_READY, DAEMON, lock, procs, nprocs, asyncStarted,
                 locals>>
  /\ UNCHANGED peripheralVars

\* ------------------------------------------------------------------------
\* PythonDaemon::new (daemon.rs): spawn, then the bounded handshake.  It
\* runs under the DAEMON mutex in ensure_daemon_running; start_daemon_async
\* (daemon/startup.rs) runs the same spawn and read loop on its own thread,
\* without the mutex and without the time bound.
\* ------------------------------------------------------------------------
\* What a failed spawn or handshake does, by caller: ensure_daemon_running
\* propagates the error with `?` (dropping its guard), start_daemon_async
\* emits an error status and returns.
NewFail(t, msg) ==
  /\ Return(t, Ret(cont[t], FALSE, msg, NoLine))
  /\ lock' = IF cont[t] = "ensure" THEN 0 ELSE lock

\* { let mut ptt_stderr = PTT_STDERR.lock().unwrap();
\*   *ptt_stderr = Some(stderr); }   The pipe of the handle stored before
\* is dropped with its unread lines.
StoreStderr(p) == [reader EXCEPT !.PTT_STDERR = p, !.pipe = <<>>]

\* Command::new(..).spawn().map_err(..)?  A process that was spawned stays
\* alive when its Child value is dropped. The stderr of the new process is
\* stored for the PTT reader, which holds the PTT_STDERR mutex while it is
\* blocked in read_line.
NewSpawn(t) ==
  /\ pc[t] = "new_spawn"
  /\ \/ /\ nprocs < MaxProcs
        /\ nprocs' = nprocs + 1
        /\ procs' = [procs EXCEPT ![nprocs + 1] = NewProc]
        /\ child' = Set(child, t, nprocs + 1)
        /\ reader.pc # "reading"
        /\ reader' = StoreStderr(nprocs + 1)
        /\ Goto(t, "hs_check")
        /\ UNCHANGED <<ret, lock>>
     \/ /\ NewFail(t, <<"Failed to start">>)
        /\ UNCHANGED <<nprocs, procs, child, reader>>
  /\ UNCHANGED <<APP_STATUS, RECORDING_ABORTED, RECORDING_MODE,
                 STREAMING_IN_PROGRESS, DAEMON_READY, DAEMON, asyncStarted,
                 arg_status, arg_priority, cur, cmd, cont, myreq, flag>>
  /\ UNCHANGED <<recorder, capture, rec_call, dsp>>

\* while start.elapsed() < timeout { .. }  The bound is looked at only
\* here, between two reads.
HandshakeCheck(t) ==
  /\ pc[t] = "hs_check"
  /\ \/ /\ Goto(t, "hs_read")
        /\ UNCHANGED <<ret, lock>>
     \/ /\ cont[t] = "ensure"
        /\ NewFail(t, <<"Daemon initialization timeout (25 seconds)">>)
  /\ UNCHANGED <<APP_STATUS, RECORDING_ABORTED, RECORDING_MODE,
                 STREAMING_IN_PROGRESS, DAEMON_READY, DAEMON, procs, nprocs,
                 asyncStarted, locals>>
  /\ UNCHANGED peripheralVars

\* The ready test with the message left out.
IsReadySignal_any_message(l) ==
  /\ ParsesAsJson(l)
  /\ l.event = "daemon_success"

\* The line that ends the handshake with success: it parses, its "event"
\* is "daemon_success" and its "message" contains "ready" or U+5C31 U+7EEA.
IsReadySignal(l) ==
  /\ ParsesAsJson(l)
  /\ l.event = "daemon_success"
  /\ l.message.present
  /\ (contains(l.message, "jiuxu") \/ contains(l.message, "ready"))

\* match stdout.read_line(&mut line) { Ok(0) => Err(exited), Ok(_) => ready
\* signal ends the loop, anything else is ignored }
HandshakeRead(t) ==
  /\ pc[t] = "hs_read"
  /\ CanRead(child[t])
  /\ LET l == NextLine(child[t]) IN
       /\ procs' = Consume(child[t])
       /\ IF l.k = "eof"
            THEN NewFail(t, <<"Daemon exited during initialization">>)
            ELSE IF IsReadySignal(l)
              THEN /\ Goto(t, IF cont[t] = "ensure" THEN "en_store"
                              ELSE "as_store")
                   /\ UNCHANGED <<ret, lock>>
              ELSE /\ Goto(t, "hs_check")
                   /\ UNCHANGED <<ret, lock>>
  /\ UNCHANGED <<APP_STATUS, RECORDING_ABORTED, RECORDING_MODE,
                 STREAMING_IN_PROGRESS, DAEMON_READY, DAEMON, nprocs,
                 asyncStarted, locals>>
  /\ UNCHANGED peripheralVars

\* ------------------------------------------------------------------------
\* ensure_daemon_running (daemon/startup.rs)
\* ------------------------------------------------------------------------
EnsureCall(t) ==
  /\ pc[t] = "idle"
  /\ Goto(t, "en_lock")
  /\ cont' = Set(cont, t, "ensure")
  /\ ret' = Set(ret, t, NoRet)
  /\ UNCHANGED <<globalVars, arg_status, arg_priority, cur, cmd, child,
                 myreq, flag>>
  /\ UNCHANGED peripheralVars

\* let mut daemon = DAEMON.lock().unwrap();
\* if let Some(d) = daemon { if STREAMING_IN_PROGRESS { return Ok(()) }
\*                          d.health_check() .. }
EnsureLock(t) ==
  /\ pc[t] = "en_lock"
  /\ DaemonLockFree
  /\ IF DAEMON = 0
       THEN /\ lock' = t
            /\ Goto(t, "new_spawn")
            /\ UNCHANGED <<ret, cmd, child>>
       ELSE IF STREAMING_IN_PROGRESS
         THEN /\ Return(t, Ret("ensure", TRUE, <<"skipped">>, NoLine))
              /\ UNCHANGED <<lock, cmd, child>>
         ELSE /\ lock' = t
              /\ cmd' = Set(cmd, t, "health")
              /\ child' = Set(child, t, DAEMON)
              /\ Goto(t, "sc_write")
              /\ UNCHANGED ret
  /\ UNCHANGED <<APP_STATUS, RECORDING_ABORTED, RECORDING_MODE,
                 STREAMING_IN_PROGRESS, DAEMON_READY, DAEMON, procs, nprocs,
                 asyncStarted, arg_status, arg_priority, cur, cont, myreq,
                 flag>>
  /\ UNCHANGED peripheralVars

\* A kill that leaves the process running.
kill_ignored(p) == p

\* What killing the unhealthy process leaves of it.
kill(p) == [p EXCEPT !.alive = FALSE]

\* if d.health_check() { return Ok(()) }  let _ = d.process.kill();
EnsureHealth(t) ==
  /\ pc[t] = "en_health"
  /\ IF flag[t]
       THEN /\ lock' = 0
            /\ Return(t, Ret("ensure", TRUE, <<"healthy">>, NoLine))
            /\ UNCHANGED procs
       ELSE /\ procs' = [procs EXCEPT ![DAEMON] = kill(@)]
            /\ Goto(t, "new_spawn")
            /\ UNCHANGED <<ret, lock>>
  /\ UNCHANGED <<APP_STATUS, RECORDING_ABORTED, RECORDING_MODE,
                 STREAMING_IN_PROGRESS, DAEMON_READY, DAEMON, nprocs,
                 asyncStarted, locals>>
  /\ UNCHANGED peripheralVars

\* *daemon = Some(PythonDaemon::new()?); Ok(())
EnsureStore(t) ==
  /\ pc[t] = "en_store"
  /\ DAEMON' = child[t]
  /\ lock' = 0
  /\ Return(t, Ret("ensure", TRUE, <<"started">>, NoLine))
  /\ UNCHANGED <<APP_STATUS, RECORDING_ABORTED, RECORDING_MODE,
                 STREAMING_IN_PROGRESS, DAEMON_READY, procs, nprocs,
                 asyncStarted, locals>>
  /\ UNCHANGED peripheralVars

\* ------------------------------------------------------------------------
\* start_daemon_async (daemon/startup.rs), called once by setup_app
\* ------------------------------------------------------------------------
AsyncCall(t) ==
  /\ pc[t] = "idle"
  /\ ~asyncStarted
  /\ asyncStarted' = TRUE
  /\ Goto(t, "new_spawn")
  /\ cont' = Set(cont, t, "async")
  /\ ret' = Set(ret, t, NoRet)
  /\ UNCHANGED <<APP_STATUS, RECORDING_ABORTED, RECORDING_MODE,
                 STREAMING_IN_PROGRESS, DAEMON_READY, DAEMON, lock, procs,
                 nprocs, arg_status, arg_priority, cur, cmd, child, myreq,
                 flag>>
  /\ UNCHANGED peripheralVars

\* { let mut daemon = DAEMON.lock().unwrap(); *daemon = Some(PythonDaemon
\* { process: child, stdin, stdout }); }  The handle stored before, if any,
\* is dropped; dropping it does not end its process.
AsyncStore(t) ==
  /\ pc[t] = "as_store"
  /\ DaemonLockFree
  /\ DAEMON' = child[t]
  /\ Goto(t, "as_lock")
  /\ UNCHANGED <<APP_STATUS, RECORDING_ABORTED, RECORDING_MODE,
                 STREAMING_IN_PROGRESS, DAEMON_READY, lock, procs, nprocs,
                 asyncStarted, locals, ret>>
  /\ UNCHANGED peripheralVars

\* { let mut daemon_guard = DAEMON.lock().unwrap();
\*   if let Some(daemon) = *daemon_guard { daemon.send_command("config") } }
AsyncLock(t) ==
  /\ pc[t] = "as_lock"
  /\ DaemonLockFree
  /\ IF DAEMON = 0
       THEN /\ flag' = Set(flag, t, FALSE)
            /\ Goto(t, "as_sync")
            /\ UNCHANGED <<lock, cmd, child>>
       ELSE /\ lock' = t
            /\ cmd' = Set(cmd, t, "config")
            /\ child' = Set(child, t, DAEMON)
            /\ Goto(t, "sc_write")
            /\ UNCHANGED flag
  /\ UNCHANGED <<APP_STATUS, RECORDING_ABORTED, RECORDING_MODE,
                 STREAMING_IN_PROGRESS, DAEMON_READY, DAEMON, procs, nprocs,
                 asyncStarted, arg_status, arg_priority, cur, cont, myreq,
                 ret>>
  /\ UNCHANGED peripheralVars

\* Sync RECORDING_MODE from the config reply when it carries a valid
\* recording_mode; then DAEMON_READY.store(true).
AsyncReady(t) ==
  /\ pc[t] = "as_sync"
  /\ \E m \in (IF flag[t] THEN RecordingMode ELSE {RECORDING_MODE}) :
       RECORDING_MODE' = m
  /\ DAEMON_READY' = TRUE
  /\ Return(t, Ret("async", TRUE, <<>>, NoLine))
  /\ UNCHANGED <<APP_STATUS, RECORDING_ABORTED, STREAMING_IN_PROGRESS,
                 DAEMON, lock, procs, nprocs, asyncStarted, locals>>
  /\ UNCHANGED peripheralVars

\* ------------------------------------------------------------------------
\* cleanup_daemon (daemon/startup.rs)
\* ------------------------------------------------------------------------
CleanupCall(t) ==
  /\ pc[t] = "idle"
  /\ Goto(t, "cl_lock")
  /\ cont' = Set(cont, t, "cleanup")
  /\ ret' = Set(ret, t, NoRet)
  /\ UNCHANGED <<globalVars, arg_status, arg_priority, cur, cmd, child,
                 myreq, flag>>
  /\ UNCHANGED peripheralVars

\* A cleanup_daemon that leaves the handle in DAEMON (as_mut, not take).
CleanupLock_keeps_handle(t) ==
  /\ pc[t] = "cl_lock"
  /\ DaemonLockFree
  /\ IF DAEMON = 0
       THEN /\ Return(t, Ret("cleanup", TRUE, <<>>, NoLine))
            /\ UNCHANGED <<DAEMON, lock, cmd, child>>
       ELSE /\ lock' = t
            /\ UNCHANGED DAEMON
            /\ cmd' = Set(cmd, t, "exit")
            /\ child' = Set(child, t, DAEMON)
            /\ Goto(t, "sc_write")
            /\ UNCHANGED ret
  /\ UNCHANGED <<APP_STATUS, RECORDING_ABORTED, RECORDING_MODE,
                 STREAMING_IN_PROGRESS, DAEMON_READY, procs, nprocs,
                 asyncStarted, arg_status, arg_priority, cur, cont, myreq,
                 flag>>
  /\ UNCHANGED peripheralVars

\* let mut daemon = DAEMON.lock().unwrap();
\* if let Some(mut d) = daemon.take() { d.send_command("exit", ..); .. }
CleanupLock(t) ==
  /\ pc[t] = "cl_lock"
  /\ DaemonLockFree
  /\ IF DAEMON = 0
       THEN /\ Return(t, Ret("cleanup", TRUE, <<>>, NoLine))
            /\ UNCHANGED <<DAEMON, lock, cmd, child>>
       ELSE /\ lock' = t
            /\ DAEMON' = 0
            /\ cmd' = Set(cmd, t, "exit")
            /\ child' = Set(child, t, DAEMON)
            /\ Goto(t, "sc_write")
            /\ UNCHANGED ret
  /\ UNCHANGED <<APP_STATUS, RECORDING_ABORTED, RECORDING_MODE,
                 STREAMING_IN_PROGRESS, DAEMON_READY, procs, nprocs,
                 asyncStarted, arg_status, arg_priority, cur, cont, myreq,
                 flag>>
  /\ UNCHANGED peripheralVars

\* let _ = d.process.wait();
CleanupWait(t) ==
  /\ pc[t] = "cl_wait"
  /\ ~procs[child[t]].alive
  /\ lock' = 0
  /\ Return(t, Ret("cleanup", TRUE, <<>>, NoLine))
  /\ UNCHANGED <<APP_STATUS, RECORDING_ABORTED, RECORDING_MODE,
                 STREAMING_IN_PROGRESS, DAEMON_READY, DAEMON, procs, nprocs,
                 asyncStarted, locals>>
  /\ UNCHANGED peripheralVars

\* ------------------------------------------------------------------------
\* chat_llm_stream / chat_tts_stream (commands/mod.rs).  The command sets
\* the flag and spawns the streaming thread; the model's thread continues
\* as that streaming thread.
\* ------------------------------------------------------------------------
StreamCall(t, command) ==
  /\ pc[t] = "idle"
  /\ STREAMING_IN_PROGRESS' = TRUE
  /\ Goto(t, "st_lock")
  /\ cmd' = Set(cmd, t, command)
  /\ cont' = Set(cont, t, "stream")
  /\ ret' = Set(ret, t, NoRet)
  /\ UNCHANGED <<APP_STATUS, RECORDING_ABORTED, RECORDING_MODE, DAEMON_READY,
                 DAEMON, lock, procs, nprocs, asyncStarted, arg_status,
                 arg_priority, cur, child, myreq, flag>>
  /\ UNCHANGED peripheralVars

\* let mut daemon = DAEMON.lock().unwrap();
\* None => { emit error; STREAMING_IN_PROGRESS.store(false); return }
StreamLock(t) ==
  /\ pc[t] = "st_lock"
  /\ DaemonLockFree
  /\ lock' = t
  /\ IF DAEMON = 0
       THEN /\ STREAMING_IN_PROGRESS' = FALSE
            /\ ret' = Set(ret, t, Ret(cmd[t], FALSE,
                                      <<"Daemon not available">>, NoLine))
            /\ Goto(t, "st_end")
            /\ UNCHANGED child
       ELSE /\ child' = Set(child, t, DAEMON)
            /\ Goto(t, "st_write")
            /\ UNCHANGED <<STREAMING_IN_PROGRESS, ret>>
  /\ UNCHANGED <<APP_STATUS, RECORDING_ABORTED, RECORDING_MODE, DAEMON_READY,
                 DAEMON, procs, nprocs, asyncStarted, arg_status,
                 arg_priority, cur, cmd, cont, myreq, flag>>
  /\ UNCHANGED peripheralVars

\* writeln!(daemon.stdin, request) and flush; on error the flag is cleared
StreamWrite(t) ==
  /\ pc[t] = "st_write"
  /\ LET p == child[t] IN
       IF procs[p].alive
         THEN /\ Len(procs[p].reqs) < MaxReq
              /\ procs' = [procs EXCEPT ![p].reqs = Append(@, cmd[t])]
              /\ myreq' = Set(myreq, t, Len(procs[p].reqs) + 1)
              /\ Goto(t, "st_read")
              /\ UNCHANGED <<STREAMING_IN_PROGRESS, ret>>
         ELSE /\ STREAMING_IN_PROGRESS' = FALSE
              /\ ret' = Set(ret, t, Ret(cmd[t], FALSE, <<"Write error">>,
                                        NoLine))
              /\ Goto(t, "st_end")
              /\ UNCHANGED <<procs, myreq>>
  /\ UNCHANGED <<APP_STATUS, RECORDING_ABORTED, RECORDING_MODE, DAEMON_READY,
                 DAEMON, lock, nprocs, asyncStarted, arg_status,
                 arg_priority, cur, cmd, cont, child, flag>>
  /\ UNCHANGED peripheralVars

\* A chunk loop that leaves the flag set when the stream ends with an
\* error chunk.
StreamRead_error_keeps_flag(t) ==
  /\ pc[t] = "st_read"
  /\ CanRead(child[t])
  /\ LET l == NextLine(child[t]) IN
       /\ procs' = Consume(child[t])
       /\ IF l.k = "eof"
            THEN /\ STREAMING_IN_PROGRESS' = FALSE
                 /\ ret' = Set(ret, t, Ret(cmd[t], FALSE,
                                           <<"Daemon connection lost">>,
                                           NoLine))
                 /\ Goto(t, "st_end")
            ELSE IF ParsesAsJson(l) /\ ~HasEventKey(l)
                    /\ l.k \in {"done", "error"}
              THEN /\ STREAMING_IN_PROGRESS' =
                        (STREAMING_IN_PROGRESS /\ l.k = "error")
                   /\ ret' = Set(ret, t, Ret(cmd[t], l.k = "done", <<>>, l))
                   /\ Goto(t, "st_end")
              ELSE /\ UNCHANGED <<STREAMING_IN_PROGRESS, ret, pc>>
  /\ UNCHANGED <<APP_STATUS, RECORDING_ABORTED, RECORDING_MODE, DAEMON_READY,
                 DAEMON, lock, nprocs, asyncStarted, locals>>
  /\ UNCHANGED peripheralVars

\* One iteration of the chunk loop.  read_line fails on a line that is not
\* valid UTF-8 (one of the lines that are not JSON): the thread reports a
\* read error and ends; a line of text that is not JSON is skipped.
StreamRead(t) ==
  /\ pc[t] = "st_read"
  /\ CanRead(child[t])
  /\ LET l == NextLine(child[t]) IN
       /\ procs' = Consume(child[t])
       /\ IF l.k = "eof"
            THEN /\ STREAMING_IN_PROGRESS' = FALSE
                 /\ ret' = Set(ret, t, Ret(cmd[t], FALSE,
                                           <<"Daemon connection lost">>,
                                           NoLine))
                 /\ Goto(t, "st_end")
            ELSE IF ParsesAsJson(l) /\ ~HasEventKey(l)
                    /\ l.k \in {"done", "error"}
              THEN /\ STREAMING_IN_PROGRESS' = FALSE
                   /\ ret' = Set(ret, t, Ret(cmd[t], l.k = "done", <<>>, l))
                   /\ Goto(t, "st_end")
              ELSE \/ /\ UNCHANGED <<STREAMING_IN_PROGRESS, ret, pc>>
                   \/ /\ l.k = "garbage"
                      /\ STREAMING_IN_PROGRESS' = FALSE
                      /\ ret' = Set(ret, t, Ret(cmd[t], FALSE,
                                                <<"Read error">>, NoLine))
                      /\ Goto(t, "st_end")
  /\ UNCHANGED <<APP_STATUS, RECORDING_ABORTED, RECORDING_MODE, DAEMON_READY,
                 DAEMON, lock, nprocs, asyncStarted, locals>>
  /\ UNCHANGED peripheralVars

\* The streaming thread ends: its guard is dropped.
StreamEnd(t) ==
  /\ pc[t] = "st_end"
  /\ lock' = 0
  /\ Goto(t, "idle")
  /\ UNCHANGED <<APP_STATUS, RECORDING_ABORTED, RECORDING_MODE,
                 STREAMING_IN_PROGRESS, DAEMON_READY, DAEMON, procs, nprocs,
                 asyncStarted, locals, ret>>
  /\ UNCHANGED peripheralVars

\* ------------------------------------------------------------------------
\* daemon_health (commands/mod.rs)
\* ------------------------------------------------------------------------
HealthCall(t) ==
  /\ pc[t] = "idle"
  /\ IF STREAMING_IN_PROGRESS
       THEN /\ ret' = Set(ret, t, Ret("daemon_health", TRUE, <<"streaming">>,
                                      NoLine))
            /\ UNCHANGED <<pc, cmd, cont>>
       ELSE /\ Goto(t, "cd_wait")
            /\ cmd' = Set(cmd, t, "health")
            /\ cont' = Set(cont, t, "call")
            /\ ret' = Set(ret, t, NoRet)
  /\ UNCHANGED <<globalVars, arg_status, arg_priority, cur, child, myreq,
                 flag>>
  /\ UNCHANGED peripheralVars

\* ------------------------------------------------------------------------
\* Fire-and-forget notifications: PythonDaemon::send_command_no_wait
\* (daemon/process.rs) under a guard taken by the caller.
\* ------------------------------------------------------------------------
\* The pipes after send_command_no_wait(command) on the stored handle; a
\* write to a process that is gone fails and the caller ignores the error.
send_command_no_wait(command) ==
  IF procs[DAEMON].alive
    THEN [procs EXCEPT ![DAEMON].reqs = Append(@, command)]
    ELSE procs

CanWrite == ~procs[DAEMON].alive \/ Len(procs[DAEMON].reqs) < MaxReq

\* set_recording_mode (commands/mod.rs): store the mode and the abort flag
SetModeCall(t, mode) ==
  /\ pc[t] = "idle"
  /\ RECORDING_MODE' = mode
  /\ RECORDING_ABORTED' = (mode # "Continuous")
  /\ IF mode = "Continuous"
       THEN Return(t, Ret("set_recording_mode", TRUE, <<>>, NoLine))
       ELSE Goto(t, "sm_notify") /\ ret' = Set(ret, t, NoRet)
  /\ UNCHANGED <<APP_STATUS, STREAMING_IN_PROGRESS, DAEMON_READY, DAEMON,
                 lock, procs, nprocs, asyncStarted, locals>>
  /\ UNCHANGED peripheralVars

\* if let Ok(guard) = DAEMON.try_lock() { if let Some(daemon) = guard {
\*   daemon.send_command_no_wait("interrupt", {"priority": 1}) } }
SetModeNotify(t) ==
  /\ pc[t] = "sm_notify"
  /\ IF DaemonLockFree /\ DAEMON # 0
       THEN CanWrite /\ procs' = send_command_no_wait("interrupt")
       ELSE UNCHANGED procs
  /\ Return(t, Ret("set_recording_mode", TRUE, <<>>, NoLine))
  /\ UNCHANGED <<APP_STATUS, RECORDING_ABORTED, RECORDING_MODE,
                 STREAMING_IN_PROGRESS, DAEMON_READY, DAEMON, lock, nprocs,
                 asyncStarted, locals>>
  /\ UNCHANGED peripheralVars

\* update_recording_mode (commands/mod.rs): the mode is written to the
\* configuration file; RECORDING_MODE itself is not stored here.
UpdateModeCall(t, mode) ==
  /\ pc[t] = "idle"
  /\ Goto(t, "um_notify")
  /\ ret' = Set(ret, t, NoRet)
  /\ UNCHANGED <<globalVars, locals>>
  /\ UNCHANGED peripheralVars

\* An update_recording_mode that writes whoever holds the worker lock.
UpdateModeNotify_ignores_lock(t) ==
  /\ pc[t] = "um_notify"
  /\ IF DAEMON # 0
       THEN CanWrite /\ procs' = send_command_no_wait("set_recording_mode")
       ELSE UNCHANGED procs
  /\ Return(t, Ret("update_recording_mode", TRUE, <<>>, NoLine))
  /\ UNCHANGED <<APP_STATUS, RECORDING_ABORTED, RECORDING_MODE,
                 STREAMING_IN_PROGRESS, DAEMON_READY, DAEMON, lock, nprocs,
                 asyncStarted, locals>>
  /\ UNCHANGED peripheralVars

\* if let Ok(guard) = DAEMON.try_lock() { if let Some(daemon) = guard {
\*   daemon.send_command_no_wait("set_recording_mode", {"mode": mode}) } }
\* The PTT shortcut is then registered or unregistered (unless the status
\* is Recording or Listening), and the function returns Ok(()).
UpdateModeNotify(t) ==
  /\ pc[t] = "um_notify"
  /\ IF DaemonLockFree /\ DAEMON # 0
       THEN CanWrite /\ procs' = send_command_no_wait("set_recording_mode")
       ELSE UNCHANGED procs
  /\ Return(t, Ret("update_recording_mode", TRUE, <<>>, NoLine))
  /\ UNCHANGED <<APP_STATUS, RECORDING_ABORTED, RECORDING_MODE,
                 STREAMING_IN_PROGRESS, DAEMON_READY, DAEMON, lock, nprocs,
                 asyncStarted, locals>>
  /\ UNCHANGED peripheralVars

\* The push-to-talk key handler (shortcuts.rs): the key is pressed
PttCall(t) ==
  /\ pc[t] = "idle"
  /\ Goto(t, "ptt_lock")
  /\ ret' = Set(ret, t, NoRet)
  /\ UNCHANGED <<globalVars, locals>>
  /\ UNCHANGED peripheralVars

\* if let Ok(guard) = DAEMON.lock() { if let Some(daemon) = guard {
\*   daemon.send_command_no_wait("ptt_press", {}) } }
PttNotify(t) ==
  /\ pc[t] = "ptt_lock"
  /\ DaemonLockFree
  /\ IF DAEMON # 0
       THEN CanWrite /\ procs' = send_command_no_wait("ptt_press")
       ELSE UNCHANGED procs
  /\ Return(t, Ret("ptt_press", TRUE, <<>>, NoLine))
  /\ UNCHANGED <<APP_STATUS, RECORDING_ABORTED, RECORDING_MODE,
                 STREAMING_IN_PROGRESS, DAEMON_READY, DAEMON, lock, nprocs,
                 asyncStarted, locals>>
  /\ UNCHANGED peripheralVars

\* The push-to-talk key handler (shortcuts.rs): the key is released.
\* stop_recording gave an artifact (command "ptt_audio") or failed
\* (command "ptt_release").
PttReleaseCall(t, command) ==
  /\ pc[t] = "idle"
  /\ Goto(t, "ptr_lock")
  /\ cmd' = Set(cmd, t, command)
  /\ ret' = Set(ret, t, NoRet)
  /\ UNCHANGED <<globalVars, arg_status, arg_priority, cur, cont, child,
                 myreq, flag>>
  /\ UNCHANGED peripheralVars

\* if let Ok(guard) = DAEMON.lock() { if let Some(daemon) = guard {
\*   daemon.send_command_no_wait("ptt_audio" | "ptt_release", args) } }
PttReleaseNotify(t) ==
  /\ pc[t] = "ptr_lock"
  /\ DaemonLockFree
  /\ IF DAEMON # 0
       THEN CanWrite /\ procs' = send_command_no_wait(cmd[t])
       ELSE UNCHANGED procs
  /\ Return(t, Ret(cmd[t], TRUE, <<>>, NoLine))
  /\ UNCHANGED <<APP_STATUS, RECORDING_ABORTED, RECORDING_MODE,
                 STREAMING_IN_PROGRESS, DAEMON_READY, DAEMON, lock, nprocs,
                 asyncStarted, locals>>
  /\ UNCHANGED peripheralVars

\* ------------------------------------------------------------------------
\* record_audio (commands/mod.rs); flag[t] is the local is_continuous_mode
\* ------------------------------------------------------------------------
\* A record_audio that does not look at STREAMING_IN_PROGRESS.
RecordCall_ignores_streaming(t, mode) ==
  /\ pc[t] = "idle"
  /\ flag' = Set(flag, t, mode = "Continuous")
  /\ cmd' = Set(cmd, t, "record")
  /\ cont' = Set(cont, t, "call")
  /\ Goto(t, "ra_abort") /\ ret' = Set(ret, t, NoRet)
  /\ UNCHANGED <<globalVars, arg_status, arg_priority, cur, child, myreq>>
  /\ UNCHANGED peripheralVars

\* if STREAMING_IN_PROGRESS.load() { return Ok(blocked) }
RecordCall(t, mode) ==
  /\ pc[t] = "idle"
  /\ flag' = Set(flag, t, mode = "Continuous")
  /\ cmd' = Set(cmd, t, "record")
  /\ cont' = Set(cont, t, "call")
  /\ IF STREAMING_IN_PROGRESS
       THEN Return(t, Ret("record", TRUE,
                          <<"Recording blocked: streaming in progress">>,
                          NoLine))
       ELSE Goto(t, "ra_abort") /\ ret' = Set(ret, t, NoRet)
  /\ UNCHANGED <<globalVars, arg_status, arg_priority, cur, child, myreq>>
  /\ UNCHANGED peripheralVars

\* if RECORDING_ABORTED.load() { RECORDING_ABORTED.store(false);
\*                               return Ok(cancelled) }
RecordAbortCheck(t) ==
  /\ pc[t] = "ra_abort"
  /\ IF RECORDING_ABORTED
       THEN /\ RECORDING_ABORTED' = FALSE
            /\ Return(t, Ret("record", TRUE, <<>>, Cancelled))
       ELSE /\ Goto(t, "ra_mode")
            /\ UNCHANGED <<RECORDING_ABORTED, ret>>
  /\ UNCHANGED <<APP_STATUS, RECORDING_MODE, STREAMING_IN_PROGRESS,
                 DAEMON_READY, DAEMON, lock, procs, nprocs, asyncStarted,
                 locals>>
  /\ UNCHANGED peripheralVars

\* A record_audio that does not compare its mode with RECORDING_MODE.
RecordModeCheck_ignores_mode(t) ==
  /\ pc[t] = "ra_mode"
  /\ Goto(t, "cd_wait")
  /\ UNCHANGED ret
  /\ UNCHANGED <<globalVars, locals>>
  /\ UNCHANGED peripheralVars

\* let current_mode = *RECORDING_MODE.lock().unwrap();
\* if is_continuous_mode && current_mode != Continuous { return Ok(changed) }
RecordModeCheck(t) ==
  /\ pc[t] = "ra_mode"
  /\ IF flag[t] /\ RECORDING_MODE # "Continuous"
       THEN Return(t, Ret("record", TRUE, <<"Recording mode changed">>,
                          NoLine))
       ELSE IF ~flag[t] /\ RECORDING_MODE = "Continuous"
         THEN Goto(t, "ra_abort2") /\ UNCHANGED ret
         ELSE Goto(t, "cd_wait") /\ UNCHANGED ret
  /\ UNCHANGED <<globalVars, locals>>
  /\ UNCHANGED peripheralVars

\* if !is_continuous_mode && current_mode == Continuous {
\*   if RECORDING_ABORTED.load() { return Ok(cancelled) } }
\* let result = call_daemon("record", args);
RecordSwitchCheck(t) ==
  /\ pc[t] = "ra_abort2"
  /\ IF RECORDING_ABORTED
       THEN Return(t, Ret("record", TRUE, <<>>, Cancelled))
       ELSE Goto(t, "cd_wait") /\ UNCHANGED ret
  /\ UNCHANGED <<globalVars, locals>>
  /\ UNCHANGED peripheralVars

record_audio(t) ==
  \/ \E mode \in RecordingMode : RecordCall(t, mode)
  \/ RecordAbortCheck(t)
  \/ RecordModeCheck(t)
  \/ RecordSwitchCheck(t)

\* ------------------------------------------------------------------------
\* The PTT reader (ptt/reader.rs): one thread reading the worker's stderr
\* ------------------------------------------------------------------------
MaxLines == 3

\* A line of the worker's stderr: blank, text that is not JSON, bytes that
\* are not UTF-8, or a JSON value whose "ptt_event" is missing, not a
\* string, or a string; `full` says its other fields are present.
PttLine(kind, ev_type, name, full) ==
  [kind |-> kind, ev_type |-> ev_type, ptt_event |-> name, full |-> full]
PttEvent(name, full) == PttLine("json", "string", name, full)

StderrLines ==
  {PttLine("blank", "missing", "", FALSE),
   PttLine("text", "missing", "", FALSE),
   PttLine("invalid_utf8", "missing", "", FALSE),
   PttLine("json", "missing", "", TRUE),
   PttLine("json", "number", "", TRUE),
   PttEvent("recording", TRUE),
   PttEvent("user_message", FALSE),
   PttEvent("audio_chunk", TRUE),
   PttEvent("audio_chunk", FALSE),
   PttEvent("wake_word", TRUE)}

NewReader ==
  [pc |-> "off", PTT_STDERR |-> 0, pipe |-> <<>>, consumed |-> <<>>,
   forwarded |-> <<>>]

\* The worker whose stderr is stored writes a line to it.
WorkerStderr(p) ==
  /\ reader.PTT_STDERR = p
  /\ procs[p].alive
  /\ Len(reader.consumed) + Len(reader.pipe) < MaxLines
  /\ \E l \in StderrLines : reader' = [reader EXCEPT !.pipe = Append(@, l)]
  /\ UNCHANGED <<daemonVars, recorder, capture, rec_call, dsp>>

\* daemon::start_ptt_reader(app.handle().clone()) in setup_app
ReaderStart ==
  /\ reader.pc = "off"
  /\ reader' = [reader EXCEPT !.pc = "loop"]
  /\ UNCHANGED <<daemonVars, recorder, capture, rec_call, dsp>>

\* let mut ptt_stderr = PTT_STDERR.lock().unwrap();
\* if let Some(ref mut stderr) = *ptt_stderr { .. } else { sleep; continue }
ReaderLock ==
  /\ reader.pc = "loop"
  /\ reader.PTT_STDERR # 0
  /\ reader' = [reader EXCEPT !.pc = "reading"]
  /\ UNCHANGED <<daemonVars, recorder, capture, rec_call, dsp>>

\* stderr.read_line(&mut line) => Ok(_), not Err
ReadsLine(l) == l.kind # "invalid_utf8"

\* !line.trim().is_empty() and serde_json::from_str(line) is Ok and
\* event.get("ptt_event").and_then(|v| v.as_str()) is Some
IsPttEvent(l) == l.kind = "json" /\ l.ev_type = "string"

\* The events with an arm in the match that sends to the main window.
MainWindowEvents ==
  {"listening", "detected", "recording", "processing", "idle",
   "user_message", "assistant_chunk", "assistant_done", "audio_chunk",
   "error"}

\* A reader that sends every PTT event on, whatever its name and fields.
EmitsToMain_every_event(l) == TRUE

\* The arm of the event emits to the main window: all listed arms emit at
\* least "ptt-state", except "audio_chunk", which emits only when both
\* audio_path and text are present. The main window exists for the
\* lifetime of the application (its close request only hides it).
EmitsToMain(l) ==
  /\ l.ptt_event \in MainWindowEvents
  /\ l.ptt_event = "audio_chunk" => l.full

\* One pass of the loop body with the lock held: Ok(0) => break; a line is
\* trimmed, parsed and matched; the guard is dropped at the end of the
\* block.
ReaderRead ==
  /\ reader.pc = "reading"
  /\ reader.pipe # <<>> \/ ~procs[reader.PTT_STDERR].alive
  /\ IF reader.pipe = <<>>
       THEN reader' = [reader EXCEPT !.pc = "done"]
       ELSE LET l == Head(reader.pipe) IN
         reader' =
           [reader EXCEPT
              !.pc = "loop",
              !.pipe = Tail(@),
              !.consumed = Append(@, l),
              !.forwarded =
                IF ReadsLine(l) /\ IsPttEvent(l) /\ EmitsToMain(l)
                  THEN Append(@, l.ptt_event) ELSE @]
  /\ UNCHANGED <<daemonVars, recorder, capture, rec_call, dsp>>

start_ptt_reader ==
  \/ ReaderStart
  \/ ReaderLock
  \/ ReaderRead

\* ------------------------------------------------------------------------
\* AudioRecorder (audio.rs). The recorder is a singleton behind the
\* AUDIO_RECORDER mutex and its methods take &mut self, so one call runs at
\* a time. A sample in the buffer is the number of the session that
\* captured it.
\* ------------------------------------------------------------------------
MaxSessions == 2
MaxSamples == 2
Sessions == 1..MaxSessions

\* AudioRecorder::new()
NewRecorder ==
  [is_recording |-> FALSE, buffer |-> <<>>, command_tx |-> 0,
   thread_handle |-> 0]

\* A capture thread and its command channel: rx counts the Stop messages
\* queued, tx says a Sender of the channel exists.
NoCapture == [pc |-> "none", rx |-> 0, tx |-> FALSE]

RecRet(op, ok, msg, n) == [op |-> op, ok |-> ok, msg |-> msg, sample_count |-> n]
NoCall ==
  [pc |-> "idle", op |-> "none", ret |-> RecRet("none", TRUE, <<>>, 0),
   encoded |-> <<>>]

RecReturn(r) == rec_call' = [rec_call EXCEPT !.pc = "idle", !.ret = r]
RecGoto(l) == rec_call' = [rec_call EXCEPT !.pc = l]

Spawned == {s \in Sessions : capture[s].pc # "none"}

\* self.command_tx = Some(tx) / self.command_tx.take(): the Sender held
\* before is dropped.
DropSender(c, s) == IF s = 0 THEN c ELSE [c EXCEPT ![s].tx = FALSE]

\* if self.is_recording.load() { return Err("Already recording") }
StartCall ==
  /\ rec_call.pc = "idle"
  /\ IF recorder.is_recording
       THEN rec_call' =
              [rec_call EXCEPT
                 !.op = "start",
                 !.ret = RecRet("start", FALSE, <<"Already recording">>, 0)]
       ELSE rec_call' = [rec_call EXCEPT !.op = "start", !.pc = "start_spawn"]
  /\ UNCHANGED <<daemonVars, recorder, capture, reader, dsp>>

\* buffer.clear(); let (tx, rx) = channel(); self.command_tx = Some(tx);
\* is_recording.store(true); let handle = thread::spawn(..);
\* The new thread runs from here on, before start_recording has returned.
StartSpawn ==
  /\ rec_call.pc = "start_spawn"
  /\ Cardinality(Spawned) < MaxSessions
  /\ LET s == Cardinality(Spawned) + 1 IN
       /\ recorder' = [recorder EXCEPT !.buffer = <<>>,
                                       !.command_tx = s,
                                       !.is_recording = TRUE]
       /\ capture' = [DropSender(capture, recorder.command_tx) EXCEPT
                        ![s] = [pc |-> "setup", rx |-> 0, tx |-> TRUE]]
  /\ RecGoto("start_ret")
  /\ UNCHANGED <<daemonVars, reader, dsp>>

\* self.thread_handle = Some(handle); Ok(())
StartReturn ==
  /\ rec_call.pc = "start_ret"
  /\ recorder' = [recorder EXCEPT !.thread_handle = recorder.command_tx]
  /\ RecReturn(RecRet("start", TRUE, <<>>, 0))
  /\ UNCHANGED <<daemonVars, capture, reader, dsp>>

start_recording == StartCall \/ StartSpawn \/ StartReturn

\* if !self.is_recording.load() { return Err("Not recording") }
StopCall ==
  /\ rec_call.pc = "idle"
  /\ IF ~recorder.is_recording
       THEN rec_call' =
              [rec_call EXCEPT
                 !.op = "stop",
                 !.ret = RecRet("stop", FALSE, <<"Not recording">>, 0)]
       ELSE rec_call' = [rec_call EXCEPT !.op = "stop", !.pc = "stop_send"]
  /\ UNCHANGED <<daemonVars, recorder, capture, reader, dsp>>

\* if let Some(tx) = self.command_tx.take() { let _ = tx.send(Stop); }
\* A send to a channel whose receiver is gone fails and is ignored.
StopSend ==
  /\ rec_call.pc = "stop_send"
  /\ LET s == recorder.command_tx IN
       /\ capture' =
            IF s = 0 THEN capture
            ELSE [capture EXCEPT
                    ![s].rx = IF capture[s].pc = "exited" THEN @ ELSE @ + 1,
                    ![s].tx = FALSE]
       /\ recorder' = [recorder EXCEPT !.command_tx = 0]
  /\ RecGoto("stop_join")
  /\ UNCHANGED <<daemonVars, reader, dsp>>

\* A stop_recording that takes the handle and does not join it.
StopJoin_detaches ==
  /\ rec_call.pc = "stop_join"
  /\ recorder' = [recorder EXCEPT !.thread_handle = 0]
  /\ RecGoto("stop_read")
  /\ UNCHANGED <<daemonVars, capture, reader, dsp>>

\* if let Some(handle) = self.thread_handle.take() { let _ = handle.join(); }
StopJoin ==
  /\ rec_call.pc = "stop_join"
  /\ recorder.thread_handle # 0 => capture[recorder.thread_handle].pc = "exited"
  /\ recorder' = [recorder EXCEPT !.thread_handle = 0]
  /\ RecGoto("stop_read")
  /\ UNCHANGED <<daemonVars, capture, reader, dsp>>

\* A stop_recording without the test for an empty buffer.
StopRead_encodes_empty ==
  /\ rec_call.pc = "stop_read"
  /\ LET samples == recorder.buffer IN
       \E written \in BOOLEAN :
         rec_call' =
           [pc |-> "idle", op |-> "stop",
            encoded |-> Append(rec_call.encoded, Len(samples)),
            ret |-> IF written
                      THEN RecRet("stop", TRUE, <<>>, Len(samples))
                      ELSE RecRet("stop", FALSE,
                                  <<"Failed to create temp file">>, 0)]
  /\ UNCHANGED <<daemonVars, recorder, capture, reader, dsp>>

\* let samples = buffer.clone(); if samples.is_empty() { return Err(..) }
\* let wav_data = samples_to_wav(&samples)?; File::create(..)?;
\* file.write_all(..)?; Ok(AudioData { .., sample_count: samples.len() })
\* Creating or writing the temporary file can fail.
StopRead ==
  /\ rec_call.pc = "stop_read"
  /\ LET samples == recorder.buffer IN
       IF samples = <<>>
         THEN RecReturn(RecRet("stop", FALSE, <<"No audio data recorded">>, 0))
         ELSE \E written \in BOOLEAN :
           rec_call' =
             [pc |-> "idle", op |-> "stop",
              encoded |-> Append(rec_call.encoded, Len(samples)),
              ret |-> IF written
                        THEN RecRet("stop", TRUE, <<>>, Len(samples))
                        ELSE RecRet("stop", FALSE,
                                    <<"Failed to create temp file">>, 0)]
  /\ UNCHANGED <<daemonVars, recorder, capture, reader, dsp>>

stop_recording == StopCall \/ StopSend \/ StopJoin \/ StopRead

\* The closure of the capture thread after run_recording_thread returned:
\* is_recording.store(false), and the thread ends.
CaptureExit(s) ==
  /\ capture' = [capture EXCEPT ![s].pc = "exited"]
  /\ recorder' = [recorder EXCEPT !.is_recording = FALSE]

\* run_recording_thread up to stream.play(): the device, its configuration,
\* the stream or its start can fail, and the function returns the error.
CaptureSetup(s) ==
  /\ capture[s].pc = "setup"
  /\ \/ /\ capture' = [capture EXCEPT ![s].pc = "loop"]
        /\ UNCHANGED recorder
     \/ CaptureExit(s)
  /\ UNCHANGED <<daemonVars, rec_call, reader, dsp>>

\* The input callback of the running stream: if is_recording.load() {
\* buf.extend_from_slice(&processed) }
CaptureData(s) ==
  /\ capture[s].pc = "loop"
  /\ recorder.is_recording
  /\ Len(recorder.buffer) < MaxSamples
  /\ recorder' = [recorder EXCEPT !.buffer = Append(@, s)]
  /\ UNCHANGED <<daemonVars, capture, rec_call, reader, dsp>>

\* What one pass of the poll loop finds: Ok(Stop) or Disconnected from
\* rx.recv_timeout(100 ms), or the recording flag cleared.
MustBreak(s) ==
  \/ capture[s].rx > 0
  \/ ~capture[s].tx
  \/ ~recorder.is_recording

\* A poll loop that looks at the channel only.
CapturePoll_ignores_flag(s) ==
  /\ capture[s].pc = "loop"
  /\ capture[s].rx > 0 \/ ~capture[s].tx
  /\ CaptureExit(s)
  /\ UNCHANGED <<daemonVars, rec_call, reader, dsp>>

\* The pass of the poll loop that breaks: drop(stream), Ok(()), and the
\* closure ends. A pass that finds nothing to break on changes nothing and
\* comes back within the 100 ms of recv_timeout.
CapturePoll(s) ==
  /\ capture[s].pc = "loop"
  /\ MustBreak(s)
  /\ CaptureExit(s)
  /\ UNCHANGED <<daemonVars, rec_call, reader, dsp>>

run_recording_thread(s) == CaptureSetup(s) \/ CaptureData(s) \/ CapturePoll(s)

\* The arguments of run_recording_thread seen from outside the recorder:
\* another holder of the is_recording Arc clears the flag.
ExternalClear ==
  /\ recorder.is_recording
  /\ recorder' = [recorder EXCEPT !.is_recording = FALSE]
  /\ UNCHANGED <<daemonVars, capture, rec_call, reader, dsp>>

\* The AudioRecorder gives up its Sender without sending Stop.
SenderDropped ==
  /\ rec_call.pc = "idle"
  /\ recorder.command_tx # 0
  /\ capture' = DropSender(capture, recorder.command_tx)
  /\ recorder' = [recorder EXCEPT !.command_tx = 0]
  /\ UNCHANGED <<daemonVars, rec_call, reader, dsp>>

\* ------------------------------------------------------------------------
\* Fixed-width unsigned integers (u16, u32, usize) as little-endian
\* sequences of 16-bit limbs: one limb is a u16, two a u32, four a usize.
\* ------------------------------------------------------------------------
Limb == 65536

RECURSIVE Carry(_, _, _)
Carry(s, i, c) ==
  IF i > Len(s)
    THEN <<>>
    ELSE <<(s[i] + c) % Limb>> \o Carry(s, i + 1, (s[i] + c) \div Limb)

\* The value of the limbs s, each below 2^30, modulo Limb^Len(s).
Wrap(s) == Carry(s, 1, 0)

Widen(s, n) == [i \in 1..n |-> IF i <= Len(s) THEN s[i] ELSE 0]

u16(n) == <<n>>
u32(n) == Wrap(<<n, 0>>)
usize(n) == Wrap(<<n, 0, 0, 0>>)

wrapping_add(a, b) == Wrap([i \in 1..Len(a) |-> a[i] + b[i]])
wrapping_mul(a, k) == Wrap([i \in 1..Len(a) |-> a[i] * k])

\* a + b does not fit the width of a and b.
AddOverflows(a, b) ==
  LET n == Len(a) + 1
  IN  wrapping_add(Widen(a, n), Widen(b, n))[n] # 0

\* `x as u32`: the low 32 bits.
as_u32(x) == SubSeq(x, 1, 2)

RECURSIVE to_le_bytes(_)
to_le_bytes(x) ==
  IF x = <<>>
    THEN <<>>
    ELSE <<Head(x) % 256, Head(x) \div 256>> \o to_le_bytes(Tail(x))

\* ------------------------------------------------------------------------
\* samples_to_wav (audio.rs).  A slice of samples is a sequence of runs,
\* n equal samples of value v each; a sample value is written in halves
\* (v = -4 is -2.0, v = 1 is 0.5).  The Vec<u8> built is its first bytes,
\* written out, followed by runs of `rep` copies of the bytes `pat`.
\* ------------------------------------------------------------------------
MaxRuns == 2
SAMPLE_RATE == 16000
CHANNELS == 1
I16_MAX == 32767

SampleValues == {-4, -1, 0, 1, 4}

\* Lengths of a run: short ones, and lengths at which 2 * len reaches the
\* range of a u32.
RunLengths ==
  {usize(1), usize(2), <<65518, 32767, 0, 0>>, <<0, 32768, 0, 0>>}

Run(n, v) == [n |-> n, v |-> v]

RECURSIVE RunSeqs(_)
RunSeqs(k) ==
  IF k = 0
    THEN {<<>>}
    ELSE LET shorter == RunSeqs(k - 1)
         IN  shorter \cup
             {Append(r, Run(n, v)) :
                r \in {x \in shorter : Len(x) = k - 1},
                n \in RunLengths, v \in SampleValues}

\* samples.len()
RECURSIVE len(_)
len(samples) ==
  IF samples = <<>>
    THEN usize(0)
    ELSE wrapping_add(Head(samples).n, len(Tail(samples)))

Ascii(c) ==
  CASE c = "R" -> 82 [] c = "I" -> 73 [] c = "F" -> 70 [] c = "W" -> 87
    [] c = "A" -> 65 [] c = "V" -> 86 [] c = "E" -> 69 [] c = "f" -> 102
    [] c = "m" -> 109 [] c = "t" -> 116 [] c = " " -> 32 [] c = "d" -> 100
    [] c = "a" -> 97

b(word) == [i \in 1..Len(word) |-> Ascii(word[i])]

\* (clamped * i16::MAX as f32) as i16: the product is exact in f32 for
\* these values and the cast truncates toward zero.
int_sample(v) ==
  LET clamped == IF v < -2 THEN -2 ELSE IF v > 2 THEN 2 ELSE v
      twice == clamped * I16_MAX
  IN  IF twice >= 0 THEN twice \div 2 ELSE -((-twice) \div 2)

\* i16::to_le_bytes: two's complement
i16_le_bytes(i) == to_le_bytes(u16((i + Limb) % Limb))

RECURSIVE SampleBytes(_)
SampleBytes(samples) ==
  IF samples = <<>>
    THEN <<>>
    ELSE <<[rep |-> Head(samples).n,
            pat |-> i16_le_bytes(int_sample(Head(samples).v))]>>
         \o SampleBytes(Tail(samples))

Wav(bytes, data) == [panic |-> FALSE, bytes |-> bytes, data |-> data]
Panicked == [panic |-> TRUE, bytes |-> <<>>, data |-> <<>>]

\* let data_size = (samples.len() * 2) as u32; let file_size = data_size
\* + 36;  the addition panics on overflow in a build with overflow checks
\* and wraps in one without.
samples_to_wav(samples, overflow_checks) ==
  LET data_size == as_u32(wrapping_mul(len(samples), 2))
      file_size == wrapping_add(data_size, u32(36))
      byte_rate == SAMPLE_RATE * CHANNELS * 2
      block_align == CHANNELS * 2
  IN  IF overflow_checks /\ AddOverflows(data_size, u32(36))
        THEN Panicked
        ELSE Wav(b(<<"R", "I", "F", "F">>) \o to_le_bytes(file_size)
                   \o b(<<"W", "A", "V", "E">>)
                   \o b(<<"f", "m", "t", " ">>) \o to_le_bytes(u32(16))
                   \o to_le_bytes(u16(1)) \o to_le_bytes(u16(CHANNELS))
                   \o to_le_bytes(u32(SAMPLE_RATE))
                   \o to_le_bytes(u32(byte_rate))
                   \o to_le_bytes(u16(block_align)) \o to_le_bytes(u16(16))
                   \o b(<<"d", "a", "t", "a">>) \o to_le_bytes(data_size),
                 SampleBytes(samples))

\* A call of one of the pure audio functions: its arguments, the build's
\* overflow checks, and what it returned.
NoDsp ==
  [pc |-> "none", samples |-> <<>>, overflow_checks |-> FALSE,
   data |-> <<>>, src_rate |-> SAMPLE_RATE, channels |-> CHANNELS,
   ty |-> "none", val |-> "", arg |-> "", out |-> Panicked]

WavCalls ==
  {[NoDsp EXCEPT !.pc = "wav", !.samples = s, !.overflow_checks = c] :
     s \in RunSeqs(MaxRuns), c \in BOOLEAN}

\* let wav_data = samples_to_wav(&samples)?
WavEncode ==
  /\ dsp.pc = "wav"
  /\ dsp' = [dsp EXCEPT !.pc = "wav_done",
                        !.out = samples_to_wav(dsp.samples,
                                               dsp.overflow_checks)]
  /\ UNCHANGED <<daemonVars, recorder, capture, rec_call, reader>>

\* ------------------------------------------------------------------------
\* Natural numbers of any size as little-endian sequences of base-256
\* digits without leading zeros, and the f64 arithmetic built on them: a
\* positive f64 is m * 2^e with m a natural number of at most 53 bits.
\* ------------------------------------------------------------------------
RECURSIVE Trim(_)
Trim(a) ==
  IF a = <<>> \/ a[Len(a)] # 0 THEN a ELSE Trim(SubSeq(a, 1, Len(a) - 1))

RECURSIVE BigCarry(_, _, _)
BigCarry(a, i, c) ==
  IF i > Len(a)
    THEN IF c = 0 THEN <<>>
                  ELSE <<c % 256>> \o BigCarry(a, i + 1, c \div 256)
    ELSE <<(a[i] + c) % 256>> \o BigCarry(a, i + 1, (a[i] + c) \div 256)

Big(n) == Trim(BigCarry(<<n>>, 1, 0))

RECURSIVE BigToInt(_)
BigToInt(a) == IF a = <<>> THEN 0 ELSE Head(a) + 256 * BigToInt(Tail(a))

Digit(a, i) == IF i <= Len(a) THEN a[i] ELSE 0

BigAdd(a, c) ==
  LET n == IF Len(a) > Len(c) THEN Len(a) ELSE Len(c)
  IN  Trim(BigCarry([i \in 1..n |-> Digit(a, i) + Digit(c, i)], 1, 0))

\* a * k for k below 2^22
BigMulSmall(a, k) == Trim(BigCarry([i \in 1..Len(a) |-> a[i] * k], 1, 0))

BigShlDigits(a, n) == IF a = <<>> THEN <<>> ELSE [i \in 1..n |-> 0] \o a

RECURSIVE BigMul(_, _)
BigMul(a, c) ==
  IF c = <<>>
    THEN <<>>
    ELSE BigAdd(BigMulSmall(a, Head(c)), BigShlDigits(BigMul(a, Tail(c)), 1))

\* Quotient and remainder of a by d, for d below 2^22
RECURSIVE BigDivSmall(_, _)
BigDivSmall(a, d) ==
  IF a = <<>>
    THEN [q |-> <<>>, r |-> 0]
    ELSE LET hi == BigDivSmall(Tail(a), d)
             num == hi.r * 256 + Head(a)
         IN  [q |-> Trim(<<num \div d>> \o hi.q), r |-> num % d]

\* a * 2^k and floor(a / 2^k)
BigShl(a, k) == BigShlDigits(BigMulSmall(a, 2 ^ (k % 8)), k \div 8)
BigShr(a, k) ==
  IF k \div 8 >= Len(a)
    THEN <<>>
    ELSE BigDivSmall(SubSeq(a, k \div 8 + 1, Len(a)), 2 ^ (k % 8)).q

RECURSIVE Bits(_)
Bits(x) == IF x = 0 THEN 0 ELSE 1 + Bits(x \div 2)

BitLen(a) == IF a = <<>> THEN 0 ELSE 8 * (Len(a) - 1) + Bits(a[Len(a)])

Odd(a) == a # <<>> /\ a[1] % 2 = 1

MantissaBits == 53

\* x * 2^0, with `inexact` saying that x is the floor of a larger value,
\* rounded to the nearest m * 2^k of MantissaBits bits, ties to even.
RoundToNearestEven(x, inexact) ==
  IF BitLen(x) <= MantissaBits
    THEN [m |-> x, k |-> 0]
    ELSE LET k == BitLen(x) - MantissaBits
             q1 == BigShr(x, k - 1)
             q == BigShr(q1, 1)
             sticky == inexact \/ BigShl(q1, k - 1) # x
             up == Odd(q1) /\ (sticky \/ Odd(q))
         IN  [m |-> IF up THEN BigAdd(q, Big(1)) ELSE q, k |-> k]

DivPrecision == 64

\* `a as f64 / c as f64` for u32 a and c, c # 0
f64_div(a, c) ==
  LET d == BigDivSmall(BigShl(Big(a), DivPrecision), c)
      r == RoundToNearestEven(d.q, d.r # 0)
  IN  [m |-> r.m, e |-> r.k - DivPrecision]

\* `n as f64 * x` for a usize n below 2^31
f64_mul(n, x) ==
  LET r == RoundToNearestEven(BigMul(Big(n), x.m), FALSE)
  IN  [m |-> r.m, e |-> x.e + r.k]

\* `x.ceil() as usize`
ceil_as_usize(x) ==
  IF x.e >= 0
    THEN BigToInt(BigShl(x.m, x.e))
    ELSE LET q == BigShr(x.m, -x.e)
         IN  BigToInt(IF BigShl(q, -x.e) = x.m THEN q ELSE BigAdd(q, Big(1)))

\* ------------------------------------------------------------------------
\* process_audio_data (audio.rs).  The interleaved input is a sequence of
\* sample values in halves; of a resampled vector only the number of
\* samples pushed is kept.
\* ------------------------------------------------------------------------
MaxData == 150

\* Device rates: the target rate itself, common rates above and below it,
\* and 7350 Hz.
SourceRates == {7350, 8000, 16000, 22050, 44100, 48000}
ChannelCounts == {1, 2}
DataPatterns == {0, 1}

\* n samples: silence (pattern 0), or -2.0, 0.0, 2.0 in turn (pattern 1).
Data(n, pattern) == [i \in 1..n |-> pattern * 4 * ((i % 3) - 1)]

RECURSIVE Sum(_)
Sum(chunk) == IF chunk = <<>> THEN 0 ELSE Head(chunk) + Sum(Tail(chunk))

\* data.chunks(channels).map(|chunk| chunk.iter().sum::<f32>() /
\* chunk.len() as f32): the last chunk may be shorter; sum and quotient are
\* exact in f32 for these values.
MonoMix(data, channels) ==
  LET n == (Len(data) + channels - 1) \div channels
      chunk(i) ==
        SubSeq(data, (i - 1) * channels + 1,
               IF i * channels < Len(data) THEN i * channels ELSE Len(data))
  IN  [i \in 1..n |-> Sum(chunk(i)) \div Len(chunk(i))]

\* let ratio = SAMPLE_RATE as f64 / src_rate as f64;
\* let output_len = (mono_data.len() as f64 * ratio).ceil() as usize;
output_len(mono_len, src_rate) ==
  ceil_as_usize(f64_mul(mono_len, f64_div(SAMPLE_RATE, src_rate)))

process_audio_data(data, src_rate, channels) ==
  LET mono_data == IF channels > 1 THEN MonoMix(data, channels) ELSE data
  IN  IF src_rate # SAMPLE_RATE
        THEN [resampled |-> TRUE,
              len |-> output_len(Len(mono_data), src_rate),
              samples |-> <<>>]
        ELSE [resampled |-> FALSE, len |-> Len(mono_data),
              samples |-> mono_data]

ProcessCalls ==
  {[NoDsp EXCEPT !.pc = "process", !.data = Data(n, p), !.src_rate = r,
                 !.channels = c] :
     n \in 0..MaxData, p \in DataPatterns, r \in SourceRates,
     c \in ChannelCounts}

\* let processed = process_audio_data(data, src_rate, channels)
Process ==
  /\ dsp.pc = "process"
  /\ dsp' = [dsp EXCEPT !.pc = "process_done",
                        !.out = process_audio_data(dsp.data, dsp.src_rate,
                                                   dsp.channels)]
  /\ UNCHANGED <<daemonVars, recorder, capture, rec_call, reader>>

\* ------------------------------------------------------------------------
\* The string encodings of the enums (types.rs).  Option<T> is a sequence:
\* None is empty, Some(x) holds x.
\* ------------------------------------------------------------------------
None == <<>>
Some(x) == <<x>>

WorkMode == {"Conversation", "TextInput"}

RecordingMode_as_str(m) ==
  CASE m = "Continuous" -> "continuous"
    [] m = "PushToTalk" -> "push-to-talk"

RecordingMode_from_str(s) ==
  CASE s = "continuous" -> Some("Continuous")
    [] s = "push-to-talk" -> Some("PushToTalk")
    [] OTHER -> None

WorkMode_as_str(m) ==
  CASE m = "Conversation" -> "conversation"
    [] m = "TextInput" -> "text-input"

WorkMode_from_str(s) ==
  CASE s = "conversation" -> Some("Conversation")
    [] s = "text-input" -> Some("TextInput")
    [] OTHER -> None

\* An AppStatus::from_str that also accepts the names of the variants.
from_str_accepts_variant_names(s) ==
  CASE s = "idle" -> Some("Idle")
    [] s = "listening" -> Some("Listening")
    [] s = "recording" -> Some("Recording")
    [] s \in {"asr", "AsrProcessing"} -> Some("AsrProcessing")
    [] s = "llm" -> Some("LlmProcessing")
    [] s = "tts" -> Some("TtsProcessing")
    [] s = "playing" -> Some("Playing")
    [] OTHER -> None

\* AppStatus::from_str
from_str(s) ==
  CASE s = "idle" -> Some("Idle")
    [] s = "listening" -> Some("Listening")
    [] s = "recording" -> Some("Recording")
    [] s = "asr" -> Some("AsrProcessing")
    [] s = "llm" -> Some("LlmProcessing")
    [] s = "tts" -> Some("TtsProcessing")
    [] s = "playing" -> Some("Playing")
    [] OTHER -> None

EnumTypes == {"RecordingMode", "WorkMode", "AppStatus"}

Values(ty) ==
  CASE ty = "RecordingMode" -> RecordingMode
    [] ty = "WorkMode" -> WorkMode
    [] ty = "AppStatus" -> AppStatus

AsStr(ty, x) ==
  CASE ty = "RecordingMode" -> RecordingMode_as_str(x)
    [] ty = "WorkMode" -> WorkMode_as_str(x)
    [] ty = "AppStatus" -> as_str(x)

FromStr(ty, s) ==
  CASE ty = "RecordingMode" -> RecordingMode_from_str(s)
    [] ty = "WorkMode" -> WorkMode_from_str(s)
    [] ty = "AppStatus" -> from_str(s)

\* Strings handed to from_str: every encoding, the names of the variants,
\* other spellings of them, and strings that are none of these.
Strings ==
  {"continuous", "push-to-talk", "conversation", "text-input", "idle",
   "listening", "recording", "asr", "llm", "tts", "playing",
   "Continuous", "PushToTalk", "Conversation", "TextInput", "Idle",
   "Listening", "Recording", "AsrProcessing", "LlmProcessing",
   "TtsProcessing", "Playing",
   "", " ", "IDLE", "idle ", " idle", "push_to_talk", "pushtotalk", "ptt",
   "text_input", "text", "asr_processing", "llm_processing",
   "tts_processing", "processing", "auto", "null"}

\* A value to encode and decode again, or a string to decode.
CodecCalls ==
  UNION {{[NoDsp EXCEPT !.pc = "as_str", !.ty = ty, !.val = x] :
            x \in Values(ty)} : ty \in EnumTypes}
  \cup {[NoDsp EXCEPT !.pc = "from_str", !.ty = ty, !.arg = s] :
          ty \in EnumTypes, s \in Strings}

\* x.as_str()
Encode ==
  /\ dsp.pc = "as_str"
  /\ dsp' = [dsp EXCEPT !.pc = "from_str", !.arg = AsStr(dsp.ty, dsp.val)]
  /\ UNCHANGED <<daemonVars, recorder, capture, rec_call, reader>>

\* T::from_str(s)
Decode ==
  /\ dsp.pc = "from_str"
  /\ dsp' = [dsp EXCEPT !.pc = "decoded", !.out = FromStr(dsp.ty, dsp.arg)]
  /\ UNCHANGED <<daemonVars, recorder, capture, rec_call, reader>>

\* ------------------------------------------------------------------------
\* The state of the audio pipeline and of the PTT reader at start-up
\* ------------------------------------------------------------------------
InitAudio ==
  /\ recorder = NewRecorder
  /\ capture = [s \in Sessions |-> NoCapture]
  /\ rec_call = NoCall
  /\ dsp = NoDsp

InitPeripherals ==
  /\ InitAudio
  /\ reader = NewReader

\* ------------------------------------------------------------------------
\* The system
\* ------------------------------------------------------------------------
InitDaemon ==
  /\ APP_STATUS = "Idle"
  /\ RECORDING_ABORTED = FALSE
  /\ RECORDING_MODE = "PushToTalk"
  /\ STREAMING_IN_PROGRESS = FALSE
  /\ DAEMON_READY = FALSE
  /\ DAEMON = 0
  /\ lock = 0
  /\ procs = [p \in Procs |-> NoProc]
  /\ nprocs = 0
  /\ asyncStarted = FALSE
  /\ pc = [t \in Threads |-> "idle"]
  /\ arg_status = [t \in Threads |-> "Idle"]
  /\ arg_priority = [t \in Threads |-> 0]
  /\ cur = [t \in Threads |-> "Idle"]
  /\ cmd = [t \in Threads |-> "health"]
  /\ cont = [t \in Threads |-> "call"]
  /\ child = [t \in Threads |-> 0]
  /\ myreq = [t \in Threads |-> 0]
  /\ flag = [t \in Threads |-> FALSE]
  /\ ret = [t \in Threads |-> NoRet]

Init ==
  /\ InitDaemon
  /\ InitPeripherals

Worker ==
  \E p \in Procs :
    \/ WorkerLog(p)
    \/ WorkerGarbage(p)
    \/ WorkerReady(p)
    \/ WorkerRespond(p)
    \/ WorkerChunk(p)
    \/ WorkerExit(p)

send_command(t) ==
  \/ SendWrite(t)
  \/ SendAbortCheck(t)
  \/ SendRead(t)

RoundTrip(t) ==
  \/ CallWait(t)
  \/ CallLock(t)
  \/ send_command(t)

StatusOps(t) ==
  \/ \E s \in AppStatus : TransitionCall(t, s)
  \/ TransitionRead(t)
  \/ TransitionWrite(t)
  \/ \E p \in Priorities : InterruptCall(t, p)
  \/ InterruptRead(t)
  \/ InterruptAct(t)
  \/ InterruptSet(t)

SupervisorOps(t) ==
  \/ AsyncCall(t)
  \/ NewSpawn(t)
  \/ HandshakeCheck(t)
  \/ HandshakeRead(t)
  \/ AsyncStore(t)
  \/ AsyncLock(t)
  \/ AsyncReady(t)
  \/ EnsureCall(t)
  \/ EnsureLock(t)
  \/ EnsureHealth(t)
  \/ EnsureStore(t)
  \/ CleanupCall(t)
  \/ CleanupLock(t)
  \/ CleanupWait(t)

CommandOps(t) ==
  \/ \E c \in {"config"} : CommandCall(t, c)
  \/ record_audio(t)
  \/ HealthCall(t)
  \/ \E c \in StreamCommands : StreamCall(t, c)
  \/ StreamLock(t)
  \/ StreamWrite(t)
  \/ StreamRead(t)
  \/ StreamEnd(t)
  \/ \E m \in RecordingMode : SetModeCall(t, m)
  \/ SetModeNotify(t)
  \/ \E m \in RecordingMode : UpdateModeCall(t, m)
  \/ UpdateModeNotify(t)
  \/ PttCall(t)
  \/ PttNotify(t)

Next ==
  \/ Worker
  \/ \E t \in Threads :
       RoundTrip(t) \/ StatusOps(t) \/ SupervisorOps(t) \/ CommandOps(t)

Spec == Init /\ [][Next]_vars

\* ------------------------------------------------------------------------
\* The status machine driven by one caller: application start-up, then any
\* sequence of transition_status and interrupt_operation calls, with the
\* worker answering the interrupt requests.
\* ------------------------------------------------------------------------
Caller == 1

Startup(t) ==
  \/ AsyncCall(t)
  \/ NewSpawn(t)
  \/ HandshakeCheck(t)
  \/ HandshakeRead(t)
  \/ AsyncStore(t)
  \/ AsyncLock(t)
  \/ AsyncReady(t)

NextStatus ==
  \/ \E p \in Procs : WorkerReady(p) \/ WorkerRespond(p) \/ WorkerExit(p)
  \/ Startup(Caller)
  \/ RoundTrip(Caller)
  \/ StatusOps(Caller)

SpecStatus == Init /\ [][NextStatus]_vars

\* ------------------------------------------------------------------------
\* The state after a successful start_daemon_async: the worker has been
\* spawned, has signalled readiness, is stored and DAEMON_READY is set.
\* ------------------------------------------------------------------------
InitRunning ==
  /\ APP_STATUS = "Idle"
  /\ RECORDING_ABORTED = FALSE
  /\ RECORDING_MODE \in RecordingMode
  /\ STREAMING_IN_PROGRESS = FALSE
  /\ DAEMON_READY = TRUE
  /\ DAEMON = 1
  /\ lock = 0
  /\ procs = [p \in Procs |->
                IF p = 1 THEN [NewProc EXCEPT !.ready = TRUE] ELSE NoProc]
  /\ nprocs = 1
  /\ asyncStarted = TRUE
  /\ pc = [t \in Threads |-> "idle"]
  /\ arg_status = [t \in Threads |-> "Idle"]
  /\ arg_priority = [t \in Threads |-> 0]
  /\ cur = [t \in Threads |-> "Idle"]
  /\ cmd = [t \in Threads |-> "health"]
  /\ cont = [t \in Threads |-> "call"]
  /\ child = [t \in Threads |-> 0]
  /\ myreq = [t \in Threads |-> 0]
  /\ flag = [t \in Threads |-> FALSE]
  /\ ret = [t \in Threads |-> NoRet]
  /\ InitAudio
  /\ reader = [NewReader EXCEPT !.PTT_STDERR = 1]

\* The second thread of the two-thread specifications: a thread spawned by a
\* command (the streaming thread) or by setup_app (the start-up thread).
Background == 2

\* ------------------------------------------------------------------------
\* Two threads contending for the worker handle of a running worker:
\* commands through call_daemon, streams, and the fire-and-forget
\* notifications of set_recording_mode and of the push-to-talk key.
\* ------------------------------------------------------------------------
Contender(t) ==
  \/ RoundTrip(t)
  \/ CommandCall(t, "config")
  \/ StreamCall(t, "chat_stream")
  \/ StreamLock(t)
  \/ StreamWrite(t)
  \/ StreamRead(t)
  \/ StreamEnd(t)
  \/ PttCall(t)
  \/ PttNotify(t)
  \/ SetModeCall(t, "PushToTalk")
  \/ SetModeNotify(t)

NextMutex ==
  \/ \E p \in Procs : WorkerRespond(p) \/ WorkerChunk(p)
  \/ Contender(Caller)
  \/ Contender(Background)

SpecMutex == InitRunning /\ [][NextMutex]_vars

\* ------------------------------------------------------------------------
\* The request/response protocol seen by one caller of a running worker:
\* commands, health checks, mode changes and key presses in any order, with
\* the worker logging and answering every request line in order.
\* ------------------------------------------------------------------------
NextProtocol ==
  \/ \E p \in Procs : WorkerLog(p) \/ WorkerRespond(p)
  \/ RoundTrip(Caller)
  \/ CommandCall(Caller, "config")
  \/ HealthCall(Caller)
  \/ PttCall(Caller)
  \/ PttNotify(Caller)
  \/ \E m \in RecordingMode : SetModeCall(Caller, m)
  \/ SetModeNotify(Caller)

SpecProtocol == InitRunning /\ [][NextProtocol]_vars

\* ------------------------------------------------------------------------
\* The supervisor: start_daemon_async on the start-up thread while a
\* caller runs ensure_daemon_running, any number of times.
\* ------------------------------------------------------------------------
Ensure(t) ==
  \/ EnsureCall(t)
  \/ EnsureLock(t)
  \/ EnsureHealth(t)
  \/ EnsureStore(t)
  \/ NewSpawn(t)
  \/ HandshakeCheck(t)
  \/ HandshakeRead(t)
  \/ send_command(t)

NextEnsure ==
  \/ \E p \in Procs : WorkerReady(p) \/ WorkerRespond(p) \/ WorkerExit(p)
  \/ Startup(Background)
  \/ send_command(Background)
  \/ Ensure(Caller)

SpecEnsure == Init /\ [][NextEnsure]_vars

\* ------------------------------------------------------------------------
\* Health checks against a streaming thread: the caller runs
\* ensure_daemon_running and daemon_health while the background thread
\* streams chat responses from a running worker.
\* ------------------------------------------------------------------------
NextStreaming ==
  \/ \E p \in Procs : WorkerReady(p) \/ WorkerRespond(p)
  \/ Ensure(Caller)
  \/ HealthCall(Caller)
  \/ CallWait(Caller)
  \/ CallLock(Caller)
  \/ StreamCall(Background, "chat_stream")
  \/ StreamLock(Background)
  \/ StreamWrite(Background)
  \/ StreamRead(Background)
  \/ StreamEnd(Background)

SpecStreaming == InitRunning /\ [][NextStreaming]_vars

\* ------------------------------------------------------------------------
\* The initialization handshake: a caller runs ensure_daemon_running
\* against workers that write any initialisation lines, announce readiness
\* or exit.
\* ------------------------------------------------------------------------
NextHandshake ==
  \/ \E p \in Procs :
       WorkerInit(p) \/ WorkerReady(p) \/ WorkerRespond(p) \/ WorkerExit(p)
  \/ Ensure(Caller)

SpecHandshake == Init /\ [][NextHandshake]_vars

\* The time bound of the handshake is found elapsed at the loop head.
HandshakeTimeout(t) ==
  /\ HandshakeCheck(t)
  /\ pc'[t] = "idle"

\* The caller's thread keeps running, and a loop that comes back to its
\* head again and again finds its 25 seconds elapsed; the worker is under
\* no obligation to write or to exit.
SpecHandshakeFair ==
  /\ Init
  /\ [][NextHandshake]_vars
  /\ WF_vars(Ensure(Caller))
  /\ SF_vars(HandshakeTimeout(Caller))

\* ------------------------------------------------------------------------
\* call_daemon over the life of the application: the start-up thread runs
\* start_daemon_async while the caller issues commands and, at exit,
\* cleanup_daemon.
\* ------------------------------------------------------------------------
NextCall ==
  \/ \E p \in Procs : WorkerReady(p) \/ WorkerRespond(p) \/ WorkerExit(p)
  \/ Startup(Background)
  \/ send_command(Background)
  \/ CommandCall(Caller, "config")
  \/ RoundTrip(Caller)
  \/ CleanupCall(Caller)
  \/ CleanupLock(Caller)
  \/ CleanupWait(Caller)

SpecCall == Init /\ [][NextCall]_vars

\* ------------------------------------------------------------------------
\* Interrupts against a busy worker: the caller changes the status and
\* interrupts while the background thread streams from a running worker.
\* ------------------------------------------------------------------------
NextInterrupt ==
  \/ \E p \in Procs : WorkerRespond(p) \/ WorkerChunk(p)
  \/ StatusOps(Caller)
  \/ RoundTrip(Caller)
  \/ StreamCall(Background, "chat_tts_stream")
  \/ StreamLock(Background)
  \/ StreamWrite(Background)
  \/ StreamRead(Background)
  \/ StreamEnd(Background)

SpecInterrupt == InitRunning /\ [][NextInterrupt]_vars

\* ------------------------------------------------------------------------
\* Recording against mode changes: the caller records while the background
\* thread switches the recording mode, which stores the abort flag.
\* ------------------------------------------------------------------------
NextRecord ==
  \/ \E p \in Procs : WorkerLog(p) \/ WorkerRespond(p)
  \/ record_audio(Caller)
  \/ RoundTrip(Caller)
  \/ \E m \in RecordingMode : SetModeCall(Background, m)
  \/ SetModeNotify(Background)

SpecRecord == InitRunning /\ [][NextRecord]_vars

\* ------------------------------------------------------------------------
\* A worker that answers nothing: it writes text that is not JSON (one
\* line in the pipe at a time), writes its ready line, or dies. The
\* caller's command runs into it; the background thread calls
\* ensure_daemon_running.
\* ------------------------------------------------------------------------
NextParse ==
  \/ \E p \in Procs : procs[p].out = <<>> /\ WorkerGarbage(p)
  \/ \E p \in Procs : WorkerReady(p) \/ WorkerExit(p)
  \/ CommandCall(Caller, "config")
  \/ RoundTrip(Caller)
  \/ Ensure(Background)

SpecParse == InitRunning /\ [][NextParse]_vars

\* ------------------------------------------------------------------------
\* The PTT reader beside the start-up thread: the worker is spawned, writes
\* to its stderr and may exit; the reader forwards what it reads.
\* ------------------------------------------------------------------------
NextReader ==
  \/ \E p \in Procs : WorkerReady(p) \/ WorkerStderr(p) \/ WorkerExit(p)
  \/ Startup(Background)
  \/ send_command(Background)
  \/ start_ptt_reader

SpecReader == Init /\ [][NextReader]_vars

\* ------------------------------------------------------------------------
\* The audio recorder driven by the push-to-talk key: start_recording and
\* stop_recording calls, one at a time, beside the capture threads.
\* ------------------------------------------------------------------------
NextRecorder ==
  \/ start_recording
  \/ stop_recording
  \/ \E s \in Sessions : run_recording_thread(s)

SpecRecorder == Init /\ [][NextRecorder]_vars

\* The capture thread with everything that can happen to its arguments:
\* the flag cleared by another holder, the Sender dropped without a Stop.
NextCapture ==
  \/ start_recording
  \/ stop_recording
  \/ ExternalClear
  \/ SenderDropped
  \/ \E s \in Sessions : run_recording_thread(s)

\* The scheduler runs every capture thread, and recv_timeout returns within
\* its 100 ms.
SpecCaptureFair ==
  /\ Init
  /\ [][NextCapture]_vars
  /\ \A s \in Sessions : WF_vars(CapturePoll(s))

\* ------------------------------------------------------------------------
\* Recording-mode changes and recordings by the caller while the background
\* thread streams a chat response under the worker lock.
\* ------------------------------------------------------------------------
NextMode ==
  \/ \E p \in Procs : WorkerRespond(p) \/ WorkerChunk(p)
  \/ record_audio(Caller)
  \/ RoundTrip(Caller)
  \/ \E m \in RecordingMode : SetModeCall(Caller, m)
  \/ SetModeNotify(Caller)
  \/ \E m \in RecordingMode : UpdateModeCall(Caller, m)
  \/ UpdateModeNotify(Caller)
  \/ StreamCall(Background, "chat_stream")
  \/ StreamLock(Background)
  \/ StreamWrite(Background)
  \/ StreamRead(Background)
  \/ StreamEnd(Background)

SpecMode == InitRunning /\ [][NextMode]_vars

\* ------------------------------------------------------------------------
\* The push-to-talk key pressed and released on the shortcut thread while
\* the background thread streams a spoken response under the worker lock.
\* ------------------------------------------------------------------------
NextKeys ==
  \/ \E p \in Procs : WorkerRespond(p) \/ WorkerChunk(p)
  \/ PttCall(Caller)
  \/ PttNotify(Caller)
  \/ \E c \in {"ptt_audio", "ptt_release"} : PttReleaseCall(Caller, c)
  \/ PttReleaseNotify(Caller)
  \/ StreamCall(Background, "chat_tts_stream")
  \/ StreamLock(Background)
  \/ StreamWrite(Background)
  \/ StreamRead(Background)
  \/ StreamEnd(Background)

SpecKeys == InitRunning /\ [][NextKeys]_vars

\* ------------------------------------------------------------------------
\* transition_status called from every thread at once.
\* ------------------------------------------------------------------------
NextTransitions ==
  \E t \in Threads :
    \/ \E s \in AppStatus : TransitionCall(t, s)
    \/ TransitionRead(t)
    \/ TransitionWrite(t)

SpecTransitions == InitRunning /\ [][NextTransitions]_vars

\* ------------------------------------------------------------------------
\* interrupt_operation on the caller's thread while the background thread
\* moves the status with transition_status.
\* ------------------------------------------------------------------------
NextInterrupts ==
  \/ \E p \in Procs : WorkerRespond(p)
  \/ \E p \in 1..3 : InterruptCall(Caller, p)
  \/ InterruptRead(Caller)
  \/ InterruptAct(Caller)
  \/ InterruptSet(Caller)
  \/ RoundTrip(Caller)
  \/ \E s \in AppStatus : TransitionCall(Background, s)
  \/ TransitionRead(Background)
  \/ TransitionWrite(Background)

SpecInterrupts == InitRunning /\ [][NextInterrupts]_vars

\* ------------------------------------------------------------------------
\* The PTT reader across a worker replacement: the stored worker writes to
\* its stderr and may exit, the caller runs ensure_daemon_running, which
\* spawns a new worker and stores its stderr, and the reader thread started
\* by setup_app keeps being scheduled.
\* ------------------------------------------------------------------------
WorkerEvent(p) ==
  /\ WorkerStderr(p)
  /\ reader'.pipe = Append(reader.pipe, PttEvent("recording", TRUE))

NextReplace ==
  \/ \E p \in Procs : WorkerReady(p) \/ WorkerEvent(p) \/ WorkerExit(p)
  \/ Ensure(Caller)
  \/ start_ptt_reader

SpecReplaceFair ==
  /\ InitRunning
  /\ [][NextReplace]_vars
  /\ WF_vars(start_ptt_reader)

\* ------------------------------------------------------------------------
\* samples_to_wav applied to one slice of samples, in a build with or
\* without overflow checks.
\* ------------------------------------------------------------------------
InitWav ==
  /\ InitDaemon
  /\ recorder = NewRecorder
  /\ capture = [s \in Sessions |-> NoCapture]
  /\ rec_call = NoCall
  /\ reader = NewReader
  /\ dsp \in WavCalls

NextWav == WavEncode

SpecWav == InitWav /\ [][NextWav]_vars

\* ------------------------------------------------------------------------
\* process_audio_data applied to one buffer of input samples.
\* ------------------------------------------------------------------------
InitProcess ==
  /\ InitDaemon
  /\ recorder = NewRecorder
  /\ capture = [s \in Sessions |-> NoCapture]
  /\ rec_call = NoCall
  /\ reader = NewReader
  /\ dsp \in ProcessCalls

NextProcess == Process

SpecProcess == InitProcess /\ [][NextProcess]_vars

\* ------------------------------------------------------------------------
\* as_str and from_str of the enums applied to one value or one string.
\* ------------------------------------------------------------------------
InitCodec ==
  /\ InitDaemon
  /\ recorder = NewRecorder
  /\ capture = [s \in Sessions |-> NoCapture]
  /\ rec_call = NoCall
  /\ reader = NewReader
  /\ dsp \in CodecCalls

NextCodec == Encode \/ Decode

SpecCodec == InitCodec /\ [][NextCodec]_vars

\* ------------------------------------------------------------------------
\* The ends of a streaming thread: the background thread streams while the
\* caller, at exit, runs cleanup_daemon and waits for the worker lock; the
\* worker answers, writes lines that are not JSON, or exits.
\* ------------------------------------------------------------------------
NextStreamEnd ==
  \/ \E p \in Procs :
       \/ WorkerRespond(p)
       \/ WorkerChunk(p)
       \/ procs[p].out = <<>> /\ WorkerGarbage(p)
       \/ WorkerExit(p)
  \/ \E c \in StreamCommands : StreamCall(Background, c)
  \/ StreamLock(Background)
  \/ StreamWrite(Background)
  \/ StreamRead(Background)
  \/ StreamEnd(Background)
  \/ CleanupCall(Caller)
  \/ CleanupLock(Caller)
  \/ send_command(Caller)
  \/ CleanupWait(Caller)

\* A streaming thread that can take a step of its chunk loop, or end,
\* eventually does.
SpecStreamEndFair ==
  /\ InitRunning
  /\ [][NextStreamEnd]_vars
  /\ WF_vars(StreamRead(Background))
  /\ WF_vars(StreamEnd(Background))

\* ------------------------------------------------------------------------
\* Two streaming commands: each thread may start chat_llm_stream or
\* chat_tts_stream while the other streams.
\* ------------------------------------------------------------------------
Streamers == {Caller, Background}

NextStreams ==
  \/ \E p \in Procs : WorkerRespond(p) \/ WorkerChunk(p)
  \/ \E t \in Streamers :
       \/ \E c \in StreamCommands : StreamCall(t, c)
       \/ StreamLock(t)
       \/ StreamWrite(t)
       \/ StreamRead(t)
       \/ StreamEnd(t)

SpecStreams == InitRunning /\ [][NextStreams]_vars

\* ------------------------------------------------------------------------
\* Properties of the status machine
\* ------------------------------------------------------------------------
\* The transition table of the specification, as a set of edges.
ListedEdges ==
  {<<"Idle", "Listening">>, <<"Idle", "Recording">>,
   <<"Listening", "Recording">>, <<"Listening", "Idle">>,
   <<"Recording", "AsrProcessing">>, <<"Recording", "Idle">>,
   <<"AsrProcessing", "Idle">>, <<"AsrProcessing", "LlmProcessing">>,
   <<"LlmProcessing", "TtsProcessing">>, <<"LlmProcessing", "Idle">>,
   <<"TtsProcessing", "Playing">>, <<"TtsProcessing", "Idle">>,
   <<"Playing", "Idle">>, <<"Playing", "Listening">>}

\* The name under which an error message mentions a status.
EndpointName ==
  [Idle |-> "idle", Listening |-> "listening", Recording |-> "recording",
   AsrProcessing |-> "asr", LlmProcessing |-> "llm", TtsProcessing |-> "tts",
   Playing |-> "playing"]

\* C1: transition_status(target) called in a status `current` with
\* target # current and (current, target) not a listed edge returns an
\* error that names both endpoints and leaves the stored status equal to
\* current.
C1_UnlistedTransitionRejected ==
  [][\A t \in Threads :
       (/\ pc[t] = "ts_read"
        /\ pc'[t] # "ts_read"
        /\ APP_STATUS # arg_status[t]
        /\ <<APP_STATUS, arg_status[t]>> \notin ListedEdges)
       => /\ pc'[t] = "idle"
          /\ ret'[t].op = "transition_status"
          /\ ~ret'[t].ok
          /\ ret'[t].msg = <<"Invalid status transition",
                             EndpointName[APP_STATUS],
                             EndpointName[arg_status[t]]>>
          /\ APP_STATUS' = APP_STATUS]_vars

C1_Witness ==
  /\ APP_STATUS = "Recording"
  /\ pc[Caller] = "idle"
  /\ ret[Caller] = Ret("transition_status", FALSE,
                       <<"Invalid status transition", "recording", "llm">>,
                       NoLine)

\* C2: the status starts as Idle; transition_status(target) succeeds and
\* leaves the stored status equal to target for each of the 14 listed edges
\* and for every self-transition, and no other call succeeds.
C2_ListedTransitionsSucceed ==
  /\ APP_STATUS = "Idle"
  /\ [][\A t \in Threads :
          LET listed == \/ APP_STATUS = arg_status[t]
                        \/ <<APP_STATUS, arg_status[t]>> \in ListedEdges
          IN
          /\ (pc[t] = "ts_read" /\ pc'[t] # "ts_read")
               => (listed <=> pc'[t] = "ts_write")
          /\ (pc[t] = "ts_write" /\ pc'[t] # "ts_write")
               => /\ cur[t] = APP_STATUS
                  /\ \/ cur[t] = arg_status[t]
                     \/ <<cur[t], arg_status[t]>> \in ListedEdges
                  /\ APP_STATUS' = arg_status[t]
                  /\ pc'[t] = "idle"
                  /\ ret'[t] = Ret("transition_status", TRUE, <<>>, NoLine)
          /\ (ret'[t].op = "transition_status" /\ ret'[t].ok
              /\ ret[t] # ret'[t])
               => pc[t] = "ts_write"]_vars

C2_Witness ==
  /\ APP_STATUS = "Listening"
  /\ cur[Caller] = "Playing"
  /\ pc[Caller] = "idle"
  /\ ret[Caller] = Ret("transition_status", TRUE, <<>>, NoLine)

\* The interrupt permissions of the specification.
Permitted(status, priority) ==
  \/ priority = 1
  \/ priority = 2 /\ status \in {"Recording", "Listening"}
  \/ priority = 3 /\ status # "Recording"

\* C3: interrupt_operation(1) succeeds in each of the 7 statuses,
\* interrupt_operation(2) succeeds exactly in Recording and Listening, and
\* interrupt_operation(3) succeeds in every status except Recording, where
\* it fails.
C3_InterruptPermission ==
  [][\A t \in Threads :
       /\ (pc[t] = "int_read" /\ pc'[t] # "int_read"
           /\ arg_priority[t] \in 1..3)
            => IF Permitted(APP_STATUS, arg_priority[t])
                 THEN pc'[t] = "int_act"
                 ELSE /\ pc'[t] = "idle"
                      /\ ret'[t].op = "interrupt_operation"
                      /\ ~ret'[t].ok
       /\ (pc[t] = "int_set" /\ pc'[t] # "int_set"
           /\ arg_priority[t] \in 1..3)
            => /\ Permitted(cur[t], arg_priority[t])
               /\ pc'[t] = "idle"
               /\ ret'[t].op = "interrupt_operation"
               /\ ret'[t].ok]_vars

C3_Witness ==
  /\ APP_STATUS = "Recording"
  /\ pc[Caller] = "idle"
  /\ arg_priority[Caller] = 3
  /\ ret[Caller].op = "interrupt_operation"
  /\ ~ret[Caller].ok

\* C4: when a permitted interrupt_operation(p) returns, the stored status
\* is Idle if p is 1 or 2, whatever it was before, and is the status of
\* before the call if p is 3.
C4_InterruptForcesIdle ==
  [][\A t \in Threads :
       (pc[t] = "int_set" /\ pc'[t] = "idle")
       => /\ ret'[t].ok
          /\ arg_priority[t] \in {1, 2} => APP_STATUS' = "Idle"
          /\ arg_priority[t] = 3 => APP_STATUS' = cur[t]]_vars

C4_Witness ==
  /\ APP_STATUS = "Playing"
  /\ pc[Caller] = "idle"
  /\ arg_priority[Caller] = 3
  /\ ret[Caller] = Ret("interrupt_operation", TRUE,
                       <<"Interrupted", "playing">>, NoLine)
  /\ \E p \in Procs : procs[p].reqs = <<"config", "interrupt">>

\* ------------------------------------------------------------------------
\* Properties of the worker handle and of the protocol
\* ------------------------------------------------------------------------
\* A thread that has started a round trip or a stream on the handle and has
\* not finished it.
InRoundTrip(t) ==
  pc[t] \in {"sc_write", "sc_abort", "sc_read", "st_write", "st_read"}

\* The step writes a request line to process p or takes a line from its
\* stdout.
PipesTouched(p) ==
  \/ procs'[p].reqs # procs[p].reqs
  \/ Len(procs'[p].out) < Len(procs[p].out)

\* C5: from the moment a caller starts writing its request until its round
\* trip or stream ends, no other thread is inside a round trip of its own,
\* and every step that writes to the worker's stdin or reads from its
\* stdout is a step of that caller.
C5_RoundTripAtomic ==
  [][\A t \in Threads :
       InRoundTrip(t) =>
         /\ \A u \in Threads \ {t} : ~InRoundTrip(u)
         /\ PipesTouched(child[t]) =>
              \A u \in Threads \ {t} : pc'[u] = pc[u] /\ ret'[u] = ret[u]]_vars

\* The caller is in the middle of a round trip, its reply not yet read,
\* while the other thread waits for the lock to send a key-press
\* notification.
C5_Witness ==
  /\ pc[Caller] = "sc_read"
  /\ lock = Caller
  /\ procs[DAEMON].out # <<>>
  /\ pc[Background] = "ptt_lock"

\* C6: send_command returns the first line read after its request that has
\* no "event" key: every value it returns is a line it read, and every line
\* it skips has an "event" key.
C6_ReturnsFirstNonEventLine ==
  [][\A t \in Threads :
       /\ (pc[t] \in {"sc_abort", "sc_read"} /\ pc'[t] = "idle"
           /\ ret'[t].ok) =>
            (pc[t] = "sc_read" /\ ret'[t].line = NextLine(child[t]))
       /\ (pc[t] = "sc_read" /\ pc'[t] = "sc_abort") =>
            HasEventKey(NextLine(child[t]))]_vars

\* C7: the value returned by a send_command is the worker's reply to that
\* call's own request, and a request is written only when every earlier
\* request has been answered and its reply read.
C7_ReplyAnswersOwnRequest ==
  [][\A t \in Threads :
       /\ (pc[t] = "sc_read" /\ pc'[t] = "idle" /\ ret'[t].ok) =>
            ret'[t].line.req = myreq[t]
       /\ \A p \in Procs :
            procs'[p].reqs # procs[p].reqs =>
              (procs[p].answered = Len(procs[p].reqs)
               /\ \A i \in 1..Len(procs[p].out) :
                    procs[p].out[i].req = 0)]_vars

\* C8: at most one worker process started by the supervisor is alive.
C8_AtMostOneWorker ==
  Cardinality({p \in Procs : procs[p].alive}) <= 1

\* The caller's ensure_daemon_running returns in this step.
EnsureReturns ==
  /\ cont[Caller] = "ensure"
  /\ pc[Caller] # "idle"
  /\ pc'[Caller] = "idle"

\* C9: ensure_daemon_running spawns only when no handle is stored or the
\* stored handle failed its health check and was killed; it returns Ok with
\* a fresh handshaken handle stored, or Ok with the healthy handle kept and
\* nothing spawned, or an error when the spawn or the handshake failed.
C9_EnsureDaemonRunning ==
  [][/\ (cont[Caller] = "ensure" /\ pc[Caller] = "new_spawn") =>
          (lock = Caller /\ (DAEMON = 0 \/ ~procs[DAEMON].alive))
     /\ (cont[Caller] = "ensure" /\ pc[Caller] = "en_health"
         /\ ~flag[Caller] /\ pc'[Caller] # pc[Caller]) =>
          (~procs'[DAEMON].alive /\ pc'[Caller] = "new_spawn")
     /\ EnsureReturns =>
          CASE pc[Caller] = "en_store" ->
                 /\ ret'[Caller].ok
                 /\ DAEMON' = child[Caller]
                 /\ DAEMON' # DAEMON
                 /\ procs[DAEMON'].ready
                 /\ DAEMON = 0 \/ ~procs[DAEMON].alive
            [] pc[Caller] = "en_health" ->
                 /\ ret'[Caller].ok
                 /\ flag[Caller]
                 /\ DAEMON # 0
                 /\ DAEMON' = DAEMON
                 /\ nprocs' = nprocs
                 /\ procs' = procs
            [] pc[Caller] = "en_lock" ->
                 /\ ret'[Caller].ok
                 /\ STREAMING_IN_PROGRESS
                 /\ DAEMON' = DAEMON
            [] OTHER ->
                 /\ pc[Caller] \in {"new_spawn", "hs_check", "hs_read"}
                 /\ ~ret'[Caller].ok
                 /\ DAEMON' = DAEMON]_vars

\* ensure_daemon_running has replaced the unhealthy first worker by a
\* second, handshaken one.
C9_Witness ==
  /\ ret[Caller] = Ret("ensure", TRUE, <<"started">>, NoLine)
  /\ DAEMON = 2
  /\ ~procs[1].alive
  /\ procs[2].alive
  /\ procs[2].ready

\* C10: while a streaming thread holds the worker lock, no call of
\* ensure_daemon_running waits for that lock.
C10_EnsureNotBlockedByStream ==
  \A t \in Threads :
    pc[t] = "en_lock" =>
      ~(\E u \in Threads : lock = u /\ pc[u] \in {"st_write", "st_read"})

\* ------------------------------------------------------------------------
\* Properties of the handshake
\* ------------------------------------------------------------------------
\* A line that is a JSON object whose event is "daemon_success" and whose
\* message contains "ready" or U+5C31 U+7EEA.
ReadyEvent(l) ==
  /\ l.k = "event"
  /\ l.event = "daemon_success"
  /\ l.message.present
  /\ \E i \in 1..Len(l.message.text) : l.message.text[i] \in {"ready", "jiuxu"}

C12_HandshakeTerminates ==
  (pc[Caller] \in {"hs_check", "hs_read"})
    ~> (pc[Caller] \notin {"hs_check", "hs_read"})

\* ------------------------------------------------------------------------
\* Properties of call_daemon
\* ------------------------------------------------------------------------
\* The caller is inside the send_command called by call_daemon.
InCallSend ==
  /\ cont[Caller] = "call"
  /\ pc[Caller] \in {"sc_write", "sc_abort", "sc_read"}

\* C13 as stated: once the ready flag is true call_daemon always goes on to
\* its send_command round trip.
C13_AlwaysOneRoundTrip ==
  [][(pc[Caller] = "cd_lock" /\ pc'[Caller] # "cd_lock") =>
       pc'[Caller] = "sc_write"]_vars

\* C13, amended: call_daemon writes to the worker only while the ready flag
\* is true; when the wait ends with the flag false it returns the timeout
\* error and nothing is written; with the flag true it takes the worker
\* lock and, if a handle is stored, makes exactly one send_command call
\* under that lock, and if none is stored (after cleanup_daemon) it returns
\* "Daemon not available" and nothing is written.
C13_CallDaemonWaitsForReady ==
  [][/\ (pc[Caller] = "cd_wait" /\ pc'[Caller] # "cd_wait") =>
          /\ procs' = procs
          /\ IF DAEMON_READY
               THEN pc'[Caller] = "cd_lock"
               ELSE /\ pc'[Caller] = "idle"
                    /\ ret'[Caller] = Ret(cmd[Caller], FALSE, <<"timeout">>,
                                          NoLine)
     /\ (pc[Caller] = "cd_lock" /\ pc'[Caller] # "cd_lock") =>
          /\ DAEMON_READY
          /\ procs' = procs
          /\ IF DAEMON # 0
               THEN pc'[Caller] = "sc_write" /\ lock' = Caller
               ELSE /\ pc'[Caller] = "idle"
                    /\ lock' = lock
                    /\ ret'[Caller] = Ret(cmd[Caller], FALSE,
                                          <<"Daemon not available">>, NoLine)
     /\ (InCallSend /\ pc'[Caller] # pc[Caller]) =>
          /\ DAEMON_READY
          /\ lock = Caller
          /\ pc'[Caller] \in {"sc_abort", "sc_read", "idle"}
          /\ pc'[Caller] = "idle" => lock' = 0
          /\ (\E p \in Procs : procs'[p].reqs # procs[p].reqs) =>
               pc[Caller] = "sc_write"]_vars

\* The caller's command has made its round trip, after the start-up
\* thread's config request, on the worker that start-up stored.
C13_Witness ==
  /\ DAEMON_READY
  /\ ret[Caller].op = "config"
  /\ ret[Caller].ok
  /\ ret[Caller].line.req = 2
  /\ procs[1].reqs = <<"config", "config">>

\* ------------------------------------------------------------------------
\* Properties of interrupt_operation
\* ------------------------------------------------------------------------
\* The caller's interrupt_operation, permitted, returns in this step.
InterruptReturns ==
  /\ pc[Caller] = "int_set"
  /\ pc'[Caller] = "idle"

\* C14: a permitted interrupt_operation called in Recording (its priority
\* is then 1 or 2) leaves the status Idle and the abort flag true.
C14_RecordingInterrupt ==
  [][(InterruptReturns /\ cur[Caller] = "Recording") =>
       /\ arg_priority[Caller] \in {1, 2}
       /\ ret'[Caller].ok
       /\ APP_STATUS' = "Idle"
       /\ RECORDING_ABORTED' = TRUE]_vars

\* interrupt_operation has returned from a call in Recording.
C14_Witness ==
  /\ ret[Caller] = Ret("interrupt_operation", TRUE,
                       <<"Interrupted", "recording">>, NoLine)
  /\ APP_STATUS = "Idle"
  /\ RECORDING_ABORTED

\* C15: a permitted interrupt_operation called in Listening leaves the
\* abort flag true.
C15_ListeningInterrupt ==
  [][(InterruptReturns /\ cur[Caller] = "Listening") =>
       RECORDING_ABORTED' = TRUE]_vars

\* C16: an interrupt_operation that is not permitted for the current status
\* returns an error and changes neither the status, nor the abort flag, nor
\* the worker's pipes, nor anything else shared.
C16_RefusedInterruptChangesNothing ==
  [][(pc[Caller] = "int_read" /\ pc'[Caller] # "int_read"
      /\ ~Permitted(APP_STATUS, arg_priority[Caller])) =>
       /\ pc'[Caller] = "idle"
       /\ ~ret'[Caller].ok
       /\ ret'[Caller].msg = <<"Cannot interrupt status", as_str(APP_STATUS),
                               ToString(arg_priority[Caller])>>
       /\ UNCHANGED globalVars]_vars

\* Priority 0 has been refused while the worker was playing.
C16_Witness ==
  /\ ret[Caller] = Ret("interrupt_operation", FALSE,
                       <<"Cannot interrupt status", "playing", "0">>, NoLine)
  /\ APP_STATUS = "Playing"

\* The statuses in which an interrupt is forwarded to the worker.
WorkerBusy == {"LlmProcessing", "TtsProcessing", "Playing"}

\* C17: a permitted interrupt_operation in LlmProcessing, TtsProcessing or
\* Playing goes on to call_daemon("interrupt"), and with priority 1 it
\* returns success with the status Idle whatever call_daemon returned.
C17_InterruptIndependentOfDelivery ==
  [][/\ (pc[Caller] = "int_act" /\ pc'[Caller] # "int_act"
         /\ cur[Caller] \in WorkerBusy) =>
          /\ pc'[Caller] = "cd_wait"
          /\ cmd'[Caller] = "interrupt"
     /\ (cont[Caller] = "int" /\ pc'[Caller] # pc[Caller]
         /\ pc[Caller] \in {"cd_wait", "cd_lock", "sc_write", "sc_abort",
                            "sc_read"}) =>
          pc'[Caller] \in {"cd_lock", "sc_write", "sc_abort", "sc_read",
                           "int_set"}
     /\ (InterruptReturns /\ cur[Caller] \in WorkerBusy
         /\ arg_priority[Caller] = 1) =>
          /\ ret'[Caller] = Ret("interrupt_operation", TRUE,
                                <<"Interrupted", as_str(cur[Caller])>>,
                                NoLine)
          /\ APP_STATUS' = "Idle"]_vars

\* The interrupt of priority 1 has succeeded in TtsProcessing although no
\* worker handle was stored and no request was ever written.
C17_Witness ==
  /\ ret[Caller] = Ret("interrupt_operation", TRUE,
                       <<"Interrupted", "tts">>, NoLine)
  /\ arg_priority[Caller] = 1
  /\ APP_STATUS = "Idle"
  /\ DAEMON = 0
  /\ nprocs = 0

\* C18: a permitted interrupt_operation(1) in LlmProcessing, TtsProcessing
\* or Playing never waits for the worker: it is never stopped at the read
\* of the worker's answer with nothing to read, nor at the worker lock
\* while a streaming thread holds it.
C18_InterruptNeverWaits ==
  (cont[Caller] = "int" /\ arg_priority[Caller] = 1) =>
    /\ ~(pc[Caller] = "sc_read" /\ ~CanRead(child[Caller]))
    /\ ~(pc[Caller] = "cd_lock" /\ lock = Background
         /\ pc[Background] \in {"st_write", "st_read"})

\* C19: when the abort flag is found set as the send_command of a record
\* request returns, the value returned is the cancelled result and the
\* flag is false afterwards.
C19_AbortWinsRace ==
  [][\A t \in Threads :
       (cmd[t] = "record" /\ cont[t] = "call"
        /\ pc[t] \in {"sc_abort", "sc_read"} /\ pc'[t] = "idle"
        /\ RECORDING_ABORTED) =>
         (ret'[t].line = Cancelled /\ ~RECORDING_ABORTED')]_vars

\* The line the thread's read_line yields is not valid JSON.
ReadsInvalid(t) ==
  /\ pc[t] = "sc_read"
  /\ pc'[t] # pc[t]
  /\ NextLine(child[t]).k \in {"garbage", "eof"}

\* C20: a send_command whose next line is not valid JSON (the empty read at
\* end-of-file included) returns the parse error to its caller in that
\* step, with no request written again; send_command never changes the
\* stored handle nor spawns; an ensure_daemon_running on the dead handle
\* fails its health check, kills, and stores a different, handshaken handle.
C20_ParseErrorToCaller ==
  [][/\ ReadsInvalid(Caller) =>
          /\ pc'[Caller] = "idle"
          /\ ~ret'[Caller].ok
          /\ ret'[Caller].msg = <<"Failed to parse JSON">>
          /\ lock' = 0
          /\ \A p \in Procs : procs'[p].reqs = procs[p].reqs
     /\ \A t \in {Caller, Background} :
          (pc[t] \in {"sc_write", "sc_abort", "sc_read"} /\ pc'[t] # pc[t]) =>
            (DAEMON' = DAEMON /\ nprocs' = nprocs)
     /\ ReadsInvalid(Background) =>
          (pc'[Background] = "en_health" /\ ~flag'[Background])
     /\ (pc[Background] = "sc_write" /\ pc'[Background] # "sc_write"
         /\ ~procs[child[Background]].alive) =>
          (pc'[Background] = "en_health" /\ ~flag'[Background])
     /\ (pc[Background] = "en_health" /\ pc'[Background] # "en_health"
         /\ ~flag[Background]) =>
          (pc'[Background] = "new_spawn" /\ ~procs'[DAEMON].alive)
     /\ (pc[Background] = "en_store" /\ pc'[Background] # "en_store") =>
          /\ ret'[Background].ok
          /\ DAEMON' = child[Background]
          /\ DAEMON' # DAEMON
          /\ procs[DAEMON'].ready
          /\ ~procs[DAEMON].alive]_vars

\* The caller's command failed on worker 1, which is dead, and a later
\* ensure_daemon_running has stored worker 2.
C20_Witness ==
  /\ ret[Caller].op = "config"
  /\ ~ret[Caller].ok
  /\ ret[Caller].msg = <<"Failed to parse JSON">>
  /\ child[Caller] = 1
  /\ ~procs[1].alive
  /\ pc[Background] = "idle"
  /\ ret[Background].op = "ensure"
  /\ ret[Background].msg = <<"started">>
  /\ DAEMON = 2

\* C21: when the health check of ensure_daemon_running reads the worker's
\* reply to its own health request, health_check returns in that step, and
\* it returns true exactly when the reply's success is true.
C21_HealthCheckResult ==
  [][(/\ cont[Caller] = "ensure"
      /\ pc[Caller] = "sc_read"
      /\ pc'[Caller] # pc[Caller]
      /\ NextLine(child[Caller]).k = "resp"
      /\ NextLine(child[Caller]).req = myreq[Caller]) =>
       (/\ pc'[Caller] = "en_health"
        /\ flag'[Caller] = (NextLine(child[Caller]).succ = "t"))]_vars

\* The names of the events among the lines, in order.
RECURSIVE EventNames(_)
EventNames(lines) ==
  IF lines = <<>> THEN <<>>
  ELSE <<Head(lines).ptt_event>> \o EventNames(Tail(lines))

\* The line parses as a JSON object with a string ptt_event.
ParsesWithStringEvent(l) == l.kind = "json" /\ l.ev_type = "string"

\* The event has one of the names the reader knows, and an audio_chunk
\* carries both its audio_path and its text.
KnownCompleteEvent(l) ==
  /\ ParsesWithStringEvent(l)
  /\ l.ptt_event \in
       {"listening", "detected", "recording", "processing", "idle",
        "user_message", "assistant_chunk", "assistant_done", "audio_chunk",
        "error"}
  /\ l.ptt_event = "audio_chunk" => l.full

\* The reader loop goes on after every line and ends only at the
\* zero-length read.
ReaderLoopContinues ==
  [][(reader.pc = "reading" /\ reader'.pc # "reading") =>
       IF reader.pipe = <<>>
         THEN reader'.pc = "done" /\ reader'.forwarded = reader.forwarded
         ELSE reader'.pc = "loop" /\ reader'.pipe = Tail(reader.pipe)]_vars

\* C22 as stated: the events forwarded are, in order, the lines read that
\* parse as a JSON object with a string ptt_event.
C22_ForwardsEveryPttEvent ==
  reader.forwarded =
    EventNames(SelectSeq(reader.consumed, ParsesWithStringEvent))

\* C22 amended: the events forwarded are, in order, the lines read that
\* parse as a JSON object whose ptt_event is a name the reader knows (an
\* audio_chunk only with both its fields); every other line is dropped,
\* the loop goes on, and it ends at the zero-length read.
C22_ForwardsKnownEventsInOrder ==
  /\ [](reader.forwarded =
          EventNames(SelectSeq(reader.consumed, KnownCompleteEvent)))
  /\ ReaderLoopContinues

\* The reader has read three lines, dropped one that is no event, forwarded
\* one event, and ended at the zero-length read.
C22_Witness ==
  /\ reader.pc = "done"
  /\ Len(reader.consumed) >= 2
  /\ Len(reader.forwarded) >= 1
  /\ \E i \in 1..Len(reader.consumed) :
       ~ParsesWithStringEvent(reader.consumed[i])
  /\ reader.forwarded[1] = "recording"

\* C23: start_recording on a set recording flag fails with "Already
\* recording" and changes nothing; otherwise, when it returns, the buffer
\* holds no sample of an earlier session, the flag is true, and exactly one
\* capture thread was spawned for the session.
C23_StartRecording ==
  [][/\ (rec_call.pc = "idle" /\ rec_call' # rec_call
         /\ rec_call'.op = "start" /\ recorder.is_recording) =>
          /\ rec_call'.pc = "idle"
          /\ ~rec_call'.ret.ok
          /\ rec_call'.ret.msg = <<"Already recording">>
          /\ recorder' = recorder
          /\ capture' = capture
     /\ (rec_call.pc = "start_ret" /\ rec_call'.pc = "idle") =>
          /\ rec_call'.ret.ok
          /\ recorder'.is_recording
          /\ \A i \in 1..Len(recorder'.buffer) :
               recorder'.buffer[i] = recorder'.thread_handle
          /\ capture[recorder'.thread_handle].pc # "none"
          /\ \A s \in Spawned : s <= recorder'.thread_handle]_vars

\* stop_recording on a cleared flag fails with "Not recording" and changes
\* nothing; the buffer is read only after the Stop was sent and every
\* capture thread has ended.
StopOrder ==
  /\ (rec_call.pc = "idle" /\ rec_call' # rec_call
      /\ rec_call'.op = "stop" /\ ~recorder.is_recording) =>
       /\ rec_call'.pc = "idle"
       /\ ~rec_call'.ret.ok
       /\ rec_call'.ret.msg = <<"Not recording">>
       /\ recorder' = recorder
       /\ capture' = capture
  /\ (rec_call.pc = "stop_read" /\ rec_call'.pc = "idle") =>
       /\ recorder.command_tx = 0
       /\ recorder.thread_handle = 0
       /\ \A s \in Spawned : capture[s].pc = "exited"
       /\ recorder' = recorder

\* stop_recording returns from its last step.
StopReturns == rec_call.pc = "stop_read" /\ rec_call'.pc = "idle"

\* C24 as stated: after the join stop_recording fails with the
\* empty-recording error if the buffer is empty, else returns an artifact
\* whose sample_count is the length of the buffer.
C24_StopReturnsArtifact ==
  [][StopOrder /\
     (StopReturns =>
        IF recorder.buffer = <<>>
          THEN /\ ~rec_call'.ret.ok
               /\ rec_call'.ret.msg = <<"No audio data recorded">>
          ELSE /\ rec_call'.ret.ok
               /\ rec_call'.ret.sample_count = Len(recorder.buffer))]_vars

\* C24 amended: as stated, except that with a non-empty buffer the call can
\* also fail because the temporary file could not be created or written;
\* the encoder is never invoked on zero samples.
C24_StopRecording ==
  /\ [][StopOrder /\
        (StopReturns =>
           IF recorder.buffer = <<>>
             THEN /\ ~rec_call'.ret.ok
                  /\ rec_call'.ret.msg = <<"No audio data recorded">>
                  /\ rec_call'.encoded = rec_call.encoded
             ELSE /\ rec_call'.encoded =
                       Append(rec_call.encoded, Len(recorder.buffer))
                  /\ \/ /\ rec_call'.ret.ok
                        /\ rec_call'.ret.sample_count = Len(recorder.buffer)
                     \/ /\ ~rec_call'.ret.ok
                        /\ rec_call'.ret.msg =
                             <<"Failed to create temp file">>)]_vars
  /\ [](\A i \in 1..Len(rec_call.encoded) : rec_call.encoded[i] > 0)

\* A session with two samples was stopped and its artifact returned, and a
\* later session was stopped with nothing captured.
C24_Witness ==
  /\ rec_call.pc = "idle"
  /\ rec_call.ret.msg = <<"No audio data recorded">>
  /\ rec_call.encoded = <<2>>
  /\ \A s \in Sessions : capture[s].pc = "exited"

\* A Stop message is queued for the thread, or no Sender of its channel is
\* left, or the recording flag is cleared.
StopRequested(s) ==
  \/ capture[s].rx > 0
  \/ ~capture[s].tx
  \/ ~recorder.is_recording

\* C25: a capture thread whose stream is running ends once a Stop message
\* was sent, its channel was disconnected, or the recording flag was
\* cleared; and the recording flag is false when a capture thread ends,
\* after its loop or after a setup error.
C25_CaptureThreadTerminates ==
  /\ \A s \in Sessions :
       (capture[s].pc = "loop" /\ StopRequested(s)) ~>
         (capture[s].pc = "exited")
  /\ [][\A s \in Sessions :
          (capture[s].pc # "exited" /\ capture'[s].pc = "exited") =>
            ~recorder'.is_recording]_vars

\* The thread of the first session has captured a sample and ended with no
\* Stop message and its Sender still there: the flag was cleared.
C25_Witness ==
  /\ capture[1].pc = "exited"
  /\ capture[1].rx = 0
  /\ capture[1].tx
  /\ recorder.buffer # <<>>
  /\ ~recorder.is_recording

\* A step of record_audio(t) before its call_daemon, made with mode
\* "continuous" while RECORDING_MODE is PushToTalk.
ContinuousUnderPtt(t) ==
  /\ RECORDING_MODE = "PushToTalk"
  /\ \/ pc[t] = "idle" /\ flag'[t]
        /\ \/ pc'[t] = "ra_abort"
           \/ pc'[t] = "idle" /\ ret'[t].op = "record" /\ ret'[t] # ret[t]
     \/ pc[t] \in {"ra_abort", "ra_mode"} /\ flag[t] /\ pc'[t] # pc[t]

RecordRejected(t) == ContinuousUnderPtt(t) /\ pc'[t] = "idle"

\* C26 as stated: every such record_audio returns the error "Recording mode
\* changed" and writes no request.
C26_RejectedAsModeChanged ==
  [][\A t \in Threads :
       RecordRejected(t) =>
         /\ ret'[t].msg = <<"Recording mode changed">>
         /\ procs' = procs]_vars

\* C26: record_audio invoked with mode "continuous" while RECORDING_MODE is
\* PushToTalk never reaches call_daemon and writes no request; it returns
\* "Recording blocked: streaming in progress" when a stream is in progress,
\* else the cancelled result (clearing the flag) when RECORDING_ABORTED is
\* set, else "Recording mode changed".
C26_RejectedWithoutRequest ==
  [][\A t \in Threads :
       ContinuousUnderPtt(t) =>
         /\ procs' = procs
         /\ pc'[t] \in {"idle", "ra_abort", "ra_mode"}
         /\ pc[t] = "ra_mode" => pc'[t] = "idle"
         /\ pc'[t] = "idle" =>
              ret'[t] =
                IF pc[t] = "idle"
                  THEN Ret("record", TRUE,
                           <<"Recording blocked: streaming in progress">>,
                           NoLine)
                ELSE IF pc[t] = "ra_abort"
                  THEN Ret("record", TRUE, <<>>, Cancelled)
                  ELSE Ret("record", TRUE, <<"Recording mode changed">>,
                           NoLine)
         /\ (pc[t] = "ra_abort" /\ pc'[t] = "idle") => ~RECORDING_ABORTED'
         /\ (pc[t] = "idle") => (pc'[t] = "idle" <=> STREAMING_IN_PROGRESS)
         /\ (pc[t] = "ra_abort") => (pc'[t] = "idle" <=> RECORDING_ABORTED)]_vars

C26_Witness ==
  /\ pc[Caller] = "idle"
  /\ flag[Caller]
  /\ RECORDING_MODE = "PushToTalk"
  /\ ret[Caller] = Ret("record", TRUE, <<"Recording mode changed">>, NoLine)

\* Thread t is at the worker notification of set_recording_mode or of
\* update_recording_mode.
AtModeNotify(t) == pc[t] \in {"sm_notify", "um_notify"}

\* The notification step of t is possible now.
ModeNotifyEnabled(t) ==
  IF pc[t] = "sm_notify" THEN ENABLED SetModeNotify(t)
                         ELSE ENABLED UpdateModeNotify(t)

\* The stored worker's pipes after `n` more requests were written to it and
\* nothing was read from it.
OnlyWritten(n) ==
  /\ DAEMON # 0
  /\ Len(procs'[DAEMON].reqs) = Len(procs[DAEMON].reqs) + n
  /\ procs' = [procs EXCEPT ![DAEMON].reqs = procs'[DAEMON].reqs]

InCleanup ==
  /\ cont[Caller] = "cleanup"
  /\ pc[Caller] \in {"sc_write", "sc_abort", "sc_read", "cl_wait"}

LastRequest(p) == procs[p].reqs[Len(procs[p].reqs)]

\* C28: cleanup_daemon takes the stored handle under the worker lock,
\* writes "exit" to that worker and nothing else, returns only once the
\* process has exited, and DAEMON is empty from the take to the return;
\* with no handle stored it returns at once and writes nothing; a
\* call_daemon that finds DAEMON empty returns "Daemon not available" and
\* writes nothing.
C28_CleanupThenUnavailable ==
  /\ [](InCleanup =>
          /\ DAEMON = 0
          /\ lock = Caller
          /\ (pc[Caller] # "sc_write" /\ procs[child[Caller]].alive) =>
               (procs[child[Caller]].reqs # <<>>
                /\ LastRequest(child[Caller]) = "exit"))
  /\ [][/\ (pc[Caller] = "cl_lock" /\ pc'[Caller] # "cl_lock") =>
             /\ procs' = procs
             /\ DAEMON' = 0
             /\ IF DAEMON = 0
                  THEN pc'[Caller] = "idle" /\ lock' = lock
                  ELSE /\ pc'[Caller] = "sc_write"
                       /\ cmd'[Caller] = "exit"
                       /\ child'[Caller] = DAEMON
        /\ (InCleanup /\ pc'[Caller] # pc[Caller]) =>
             /\ pc'[Caller] = "idle" <=> pc[Caller] = "cl_wait"
             /\ pc[Caller] = "cl_wait" =>
                  (~procs[child[Caller]].alive /\ lock' = 0 /\ procs' = procs)
             /\ (pc[Caller] = "sc_write" /\ procs[child[Caller]].alive) =>
                  procs' = [procs EXCEPT ![child[Caller]].reqs =
                                           Append(@, "exit")]
             /\ \A p \in Procs : procs'[p].reqs # procs[p].reqs =>
                  (p = child[Caller] /\ pc[Caller] = "sc_write")
        /\ (cont[Caller] = "call" /\ DAEMON = 0
            /\ pc[Caller] = "cd_lock" /\ pc'[Caller] # "cd_lock") =>
             /\ pc'[Caller] = "idle"
             /\ ret'[Caller] = Ret(cmd[Caller], FALSE,
                                   <<"Daemon not available">>, NoLine)
             /\ procs' = procs
             /\ lock' = lock]_vars

\* cleanup_daemon wrote "exit" to the worker start-up had stored, the worker
\* has exited, and the call_daemon made afterwards failed.
C28_Witness ==
  /\ pc[Caller] = "idle"
  /\ DAEMON = 0
  /\ ~procs[1].alive
  /\ procs[1].reqs # <<>>
  /\ LastRequest(1) = "exit"
  /\ ret[Caller] = Ret("config", FALSE, <<"Daemon not available">>, NoLine)

\* The unsigned integer whose little-endian bytes are `bytes`, as limbs.
RECURSIVE from_le_bytes(_)
from_le_bytes(bytes) ==
  IF bytes = <<>>
    THEN <<>>
    ELSE <<bytes[1] + 256 * bytes[2]>> \o from_le_bytes(Tail(Tail(bytes)))

\* The number of bytes of an encoded buffer.
RECURSIVE DataLen(_)
DataLen(data) ==
  IF data = <<>>
    THEN usize(0)
    ELSE wrapping_add(wrapping_mul(Head(data).rep, Len(Head(data).pat)),
                      DataLen(Tail(data)))

WavLen(wav) == wrapping_add(usize(Len(wav.bytes)), DataLen(wav.data))

\* The field of `width` bytes at offset `at` of the header, as a number.
Field(wav, at, width) ==
  Widen(from_le_bytes(SubSeq(wav.bytes, at + 1, at + width)), 4)

TwiceLen(samples) == wrapping_mul(len(samples), 2)

\* C29: samples_to_wav on N samples returns 44 + 2*N bytes: "RIFF" at
\* bytes 0..4, the size field 36 + 2*N, "WAVE" at bytes 8..12, format PCM
\* (1), 1 channel, 16000 Hz, 16 bits per sample, and the data-chunk size
\* field 2*N.
C29_WavLayout ==
  dsp.pc = "wav_done" =>
    LET wav == dsp.out
    IN  /\ ~wav.panic
        /\ WavLen(wav) = wrapping_add(usize(44), TwiceLen(dsp.samples))
        /\ SubSeq(wav.bytes, 1, 4) = b(<<"R", "I", "F", "F">>)
        /\ Field(wav, 4, 4) = wrapping_add(usize(36), TwiceLen(dsp.samples))
        /\ SubSeq(wav.bytes, 9, 12) = b(<<"W", "A", "V", "E">>)
        /\ Field(wav, 20, 2) = usize(1)
        /\ Field(wav, 22, 2) = usize(1)
        /\ Field(wav, 24, 4) = usize(16000)
        /\ Field(wav, 34, 2) = usize(16)
        /\ Field(wav, 40, 4) = TwiceLen(dsp.samples)

\* The same layout for slices of fewer than 2^31 - 18 samples.
WavLayoutBelowU32Range ==
  (dsp.pc = "wav_done" /\ TwiceLen(dsp.samples)[3] = 0
   /\ ~AddOverflows(as_u32(TwiceLen(dsp.samples)), u32(36))) =>
    C29_WavLayout

\* ceil(m * t / r) in exact arithmetic
ExactCeil(m, t, r) == (m * t + r - 1) \div r

\* C30: resampling M mono samples from rate R to the target rate T gives
\* exactly ceil(M * T / R) samples, and with R = T the samples are
\* returned unchanged.
C30_ResampleLength ==
  dsp.pc = "process_done" =>
    LET mono == IF dsp.channels > 1 THEN MonoMix(dsp.data, dsp.channels)
                                    ELSE dsp.data
    IN  /\ dsp.out.len = ExactCeil(Len(mono), SAMPLE_RATE, dsp.src_rate)
        /\ dsp.src_rate = SAMPLE_RATE =>
             (~dsp.out.resampled /\ dsp.out.samples = mono)

\* The same for the rates other than 7350 Hz.
ResampleLengthAtCommonRates ==
  (dsp.pc = "process_done" /\ dsp.src_rate # 7350) => C30_ResampleLength

\* The encodings of the values of a type.
Encodings(ty) == {AsStr(ty, x) : x \in Values(ty)}

\* C31: for each of RecordingMode, WorkMode and AppStatus, from_str of
\* as_str(x) is Some(x) for every value x, as_str gives distinct strings for
\* distinct values, and from_str gives None for every string that is not
\* the encoding of a value of the type.
C31_CanonicalEncoding ==
  /\ \A ty \in EnumTypes : \A x, y \in Values(ty) :
       AsStr(ty, x) = AsStr(ty, y) => x = y
  /\ dsp.pc = "decoded" =>
       /\ dsp.val # "" => dsp.out = Some(dsp.val)
       /\ dsp.arg \notin Encodings(dsp.ty) => dsp.out = None
       /\ dsp.out # None => AsStr(dsp.ty, dsp.out[1]) = dsp.arg

\* A status whose encoding differs from its name made the round trip.
C31_Witness ==
  /\ dsp.pc = "decoded"
  /\ dsp.ty = "AppStatus"
  /\ dsp.val = "AsrProcessing"
  /\ dsp.arg = "asr"
  /\ dsp.out = Some("AsrProcessing")

\* The streaming thread t is in its chunk loop and a terminal chunk is
\* among the lines waiting for it, or its worker has exited.
TerminalPending(t) ==
  /\ pc[t] = "st_read"
  /\ \/ ~procs[child[t]].alive
     \/ \E i \in 1..Len(procs[child[t]].out) :
          procs[child[t]].out[i].k \in {"done", "error"}

\* C32: every end of a streaming thread (no handle stored, write error,
\* end-of-file, read error, done chunk, error chunk) stores false in the
\* streaming flag, and the thread then drops the worker lock; once a
\* terminal chunk waits for the thread or its worker has exited, the flag
\* becomes false and the lock is released.
C32_StreamEndClearsFlag ==
  /\ [][\A t \in Threads :
          /\ (pc[t] \in {"st_lock", "st_write", "st_read"}
              /\ pc'[t] \notin {"st_lock", "st_write", "st_read"}) =>
               (pc'[t] = "st_end" /\ ~STREAMING_IN_PROGRESS' /\ lock' = t)
          /\ (pc[t] = "st_end" /\ pc'[t] # "st_end") =>
               (pc'[t] = "idle" /\ lock' = 0)]_vars
  /\ \A t \in Threads :
       /\ TerminalPending(t) ~> ~STREAMING_IN_PROGRESS
       /\ TerminalPending(t) ~> (pc[t] = "idle" /\ lock # t)

\* The stream ended at end-of-file, the flag is false, and the caller's
\* cleanup_daemon has taken the worker lock after it.
C32_Witness ==
  /\ pc[Background] = "idle"
  /\ ret[Background].msg = <<"Daemon connection lost">>
  /\ ~STREAMING_IN_PROGRESS
  /\ lock = Caller
  /\ cont[Caller] = "cleanup"
  /\ pc[Caller] = "sc_write"

\* C33: the streaming flag is true whenever a streaming thread has written
\* its request and has not yet read its terminal chunk.
C33_FlagCoversStream ==
  \A t \in Threads : pc[t] = "st_read" => STREAMING_IN_PROGRESS

\* ------------------------------------------------------------------------
\* C34  A record_audio called while STREAMING_IN_PROGRESS is true returns
\* Ok with the error "Recording blocked: streaming in progress" at once: the
\* call writes no request to any worker and leaves RECORDING_ABORTED and
\* RECORDING_MODE as they were.
\* ------------------------------------------------------------------------
Blocked ==
  Ret("record", TRUE, <<"Recording blocked: streaming in progress">>, NoLine)

C34_BlockedWhileStreaming ==
  [][\A t \in Threads :
       (STREAMING_IN_PROGRESS /\ \E mode \in RecordingMode : RecordCall(t, mode))
         => /\ pc'[t] = "idle"
            /\ ret'[t] = Blocked
            /\ procs' = procs
            /\ RECORDING_ABORTED' = RECORDING_ABORTED
            /\ RECORDING_MODE' = RECORDING_MODE]_vars

\* The caller's record_audio was turned away while the background thread's
\* chat stream, the only request the worker ever got, was being read.
C34_Witness ==
  /\ STREAMING_IN_PROGRESS
  /\ pc[Background] = "st_read"
  /\ pc[Caller] = "idle"
  /\ ret[Caller] = Blocked
  /\ procs[DAEMON].reqs = <<"chat_stream">>

\* ------------------------------------------------------------------------
\* C35  The key-press and key-release handlers never wait for the worker
\* lock: whenever a handler is at its notification and another thread holds
\* the lock, the handler's step can still be taken; and the notification
\* itself only writes, at most one request line, and reads nothing.
\* ------------------------------------------------------------------------
AtKeyNotify(t) == pc[t] \in {"ptt_lock", "ptr_lock"}

KeyNotifyEnabled(t) ==
  IF pc[t] = "ptt_lock" THEN ENABLED PttNotify(t)
                        ELSE ENABLED PttReleaseNotify(t)

\* The write-only half: a handler's notification appends at most one request
\* line and reads no line of the worker's output.
KeyNotifyWriteOnly ==
  [][\A t \in Threads :
       (AtKeyNotify(t) /\ pc'[t] # pc[t]) =>
         /\ pc'[t] = "idle"
         /\ lock' = lock
         /\ OnlyWritten(0) \/ OnlyWritten(1)]_vars

C35_KeyHandlersNeverWait ==
  /\ [](\A t \in Threads : (AtKeyNotify(t) /\ lock # 0) => KeyNotifyEnabled(t))
  /\ KeyNotifyWriteOnly

\* ------------------------------------------------------------------------
\* C36  With transition_status called from several threads at once, every
\* change of the stored status is an edge of the transition table relative
\* to the value it replaces.
\* ------------------------------------------------------------------------
C36_EveryChangeIsAnEdge ==
  [][\A t \in Threads :
       (pc[t] = "ts_write" /\ pc'[t] # "ts_write"
        /\ APP_STATUS' # APP_STATUS)
         => <<APP_STATUS, APP_STATUS'>> \in ListedEdges]_vars

\* ------------------------------------------------------------------------
\* C37  interrupt_operation forces the status to Idle only from a status
\* that its priority may interrupt, whatever another thread does to the
\* status between the permission check and the write.
\* ------------------------------------------------------------------------
C37_ForcesIdleOnlyIfPermitted ==
  [][\A t \in Threads :
       (pc[t] = "int_set" /\ pc'[t] # "int_set" /\ APP_STATUS' # APP_STATUS)
         => /\ APP_STATUS' = "Idle"
            /\ Permitted(APP_STATUS, arg_priority[t])]_vars

\* ------------------------------------------------------------------------
\* C38  A send_command of a command other than "record" never returns the
\* synthetic "Recording cancelled" result: it returns a line the worker
\* wrote or an error, whatever set_recording_mode, interrupt_operation and
\* record_audio calls came before.
\* ------------------------------------------------------------------------
C38_OnlyRecordIsCancelled ==
  [][\A t \in Threads :
       (cmd[t] # "record" /\ pc[t] \in {"sc_abort", "sc_read"}
        /\ pc'[t] \notin {"sc_abort", "sc_read"})
         => ret'[t].line # Cancelled]_vars

\* ------------------------------------------------------------------------
\* C39  Events keep being forwarded across a worker replacement: whenever
\* the stderr of a worker spawned after the first holds an unread line, a
\* line is read by the reader loop later on; and lines are consumed only by
\* the one loop, while it holds the PTT_STDERR guard.
\* ------------------------------------------------------------------------
NewWorkerWrote == reader.PTT_STDERR > 1 /\ reader.pipe # <<>>

C39_ForwardedAcrossReplacement ==
  /\ \A n \in 0..MaxLines :
       (NewWorkerWrote /\ Len(reader.consumed) = n)
         ~> (Len(reader.consumed) > n)
  /\ [][reader'.consumed # reader.consumed => reader.pc = "reading"]_vars

\* The safety half alone: only the loop holding the guard consumes lines.
OneReaderConsumes ==
  [][reader'.consumed # reader.consumed => reader.pc = "reading"]_vars

\* ------------------------------------------------------------------------
\* C40  Recorder life cycle.  When stop_recording returns an artifact or
\* the error for an empty recording, the recording flag is false and every
\* capture thread has exited, and the start_recording that follows passes
\* its check and returns Ok; at most one capture thread is alive at any
\* time; and the buffer grows only while the recording flag is true.
\* ------------------------------------------------------------------------
Alive == {s \in Sessions : capture[s].pc \in {"setup", "loop"}}

StopReturnsResult ==
  /\ rec_call.pc = "stop_read"
  /\ rec_call'.pc = "idle"
  /\ \/ rec_call'.ret.ok
     \/ rec_call'.ret.msg = <<"No audio data recorded">>

C40_RecorderLifeCycle ==
  /\ [](Cardinality(Alive) <= 1)
  /\ [][StopReturnsResult =>
          /\ ~recorder'.is_recording
          /\ \A s \in Sessions : capture'[s].pc \in {"none", "exited"}]_vars
  /\ [][(rec_call.pc = "idle" /\ rec_call'.op = "start"
         /\ rec_call' # rec_call /\ ~recorder.is_recording)
          => rec_call'.pc = "start_spawn"]_vars
  /\ [][(rec_call.pc = "start_ret" /\ rec_call'.pc = "idle")
          => rec_call'.ret = RecRet("start", TRUE, <<>>, 0)]_vars
  /\ [][Len(recorder'.buffer) > Len(recorder.buffer)
          => (recorder.is_recording /\ recorder'.is_recording)]_vars

\* A first recording was stopped and returned its artifact, the start that
\* followed returned Ok, and the second session's thread is capturing.
C40_Witness ==
  /\ rec_call.pc = "idle"
  /\ rec_call.ret = RecRet("start", TRUE, <<>>, 0)
  /\ Len(rec_call.encoded) = 1
  /\ capture[1].pc = "exited"
  /\ capture[2].pc = "loop"
  /\ recorder.is_recording
  /\ recorder.buffer # <<>>

====
